---- MODULE Spec2Model ----
(***************************************************************************)
(* Pod-termination impact analysis (scripts/statistical-analysis.js and    *)
(* its sibling revision with dynamic column lookup and z-scores).          *)
(*                                                                         *)
(* Numbers are exact rationals [k, n, d]; k = "nan" stands for the         *)
(* JavaScript NaN.  Every comparison with NaN is false, as in JavaScript.  *)
(***************************************************************************)
EXTENDS Integers, Sequences, FiniteSets, TLC

\* ------------------------------------------------------------------------
\* Bounds of the explored inputs
\* ------------------------------------------------------------------------
MaxSamples == 3        \* rows of a generated series
MaxSeriesEvents == 1   \* terminations analysed against a generated series
MaxEvents == 3         \* terminations analysed against a probe series
MaxRows == 2           \* termination rows handed to the annotation poster
MaxMergeEvents == 2    \* terminations merged into a k6 series

\* ------------------------------------------------------------------------
\* Numbers
\* ------------------------------------------------------------------------
Abs(x) == IF x < 0 THEN -x ELSE x

RECURSIVE GCD(_, _)
GCD(a, b) == IF b = 0 THEN a ELSE GCD(b, a % b)

NaN == [k |-> "nan", n |-> 0, d |-> 1]

\* The rational n/d in lowest terms with a positive denominator; 0/0 is NaN.
Rat(n, d) ==
  IF d = 0 THEN NaN
  ELSE LET g == GCD(Abs(n), Abs(d))
           s == IF d < 0 THEN -1 ELSE 1
       IN  [k |-> "num", n |-> s * (n \div g), d |-> s * (d \div g)]

Int2Num(i) == [k |-> "num", n |-> i, d |-> 1]
Zero == Int2Num(0)

IsNaN(a) == a.k = "nan"

Add(a, b) ==
  IF IsNaN(a) \/ IsNaN(b) THEN NaN
  ELSE LET g == GCD(a.d, b.d)
       IN  Rat(a.n * (b.d \div g) + b.n * (a.d \div g), (a.d \div g) * b.d)

Neg(a) == IF IsNaN(a) THEN NaN ELSE [k |-> "num", n |-> -a.n, d |-> a.d]

Sub(a, b) == Add(a, Neg(b))

Mul(a, b) ==
  IF IsNaN(a) \/ IsNaN(b) THEN NaN
  ELSE LET g1 == GCD(Abs(a.n), b.d)
           g2 == GCD(Abs(b.n), a.d)
       IN  Rat((a.n \div g1) * (b.n \div g2), (a.d \div g2) * (b.d \div g1))

\* a / b.  Only 0/0 (NaN) arises for a zero divisor in the modelled code.
Div(a, b) ==
  IF IsNaN(a) \/ IsNaN(b) \/ b.n = 0 THEN NaN
  ELSE Mul(a, Rat(b.d, b.n))

\* a < b, a <= b, a > b, a >= b, a === b; all false when an operand is NaN
Lt(a, b) == ~IsNaN(a) /\ ~IsNaN(b) /\ a.n * b.d < b.n * a.d
Le(a, b) == ~IsNaN(a) /\ ~IsNaN(b) /\ a.n * b.d <= b.n * a.d
Gt(a, b) == Lt(b, a)
Ge(a, b) == Le(b, a)
Eq(a, b) == ~IsNaN(a) /\ ~IsNaN(b) /\ a.n * b.d = b.n * a.d

NumAbs(a) == IF IsNaN(a) THEN NaN ELSE [k |-> "num", n |-> Abs(a.n), d |-> a.d]

\* Number.prototype.toFixed(digits): the decimal with `digits` fraction
\* digits nearest to a (ties to the larger magnitude), kept as the scaled
\* integer; NaN prints as "NaN".
Pow10(digits) == IF digits = 2 THEN 100 ELSE 10000

\* long division: the first `digits` fraction digits of r/d (as an integer)
\* and the remainder left after them
RECURSIVE FracDigits(_, _, _)
FracDigits(r, d, digits) ==
  IF digits = 0 THEN [s |-> 0, r |-> r]
  ELSE LET p == FracDigits(r, d, digits - 1)
       IN  [s |-> p.s * 10 + ((p.r * 10) \div d), r |-> (p.r * 10) % d]

toFixed(a, digits) ==
  IF IsNaN(a) THEN [txt |-> "NaN", scaled |-> 0, digits |-> digits]
  ELSE LET m == Abs(a.n)
           f == FracDigits(m % a.d, a.d, digits)
           q == (m \div a.d) * Pow10(digits) + f.s + (IF 2 * f.r >= a.d THEN 1 ELSE 0)
       IN  [txt |-> "fixed", scaled |-> (IF a.n < 0 THEN -q ELSE q), digits |-> digits]

NA == [txt |-> "N/A", scaled |-> 0, digits |-> 0]

\* ------------------------------------------------------------------------
\* CSV cells.  A cell is the text of one field; parseFloat/parseInt turn
\* it into a number.  "undefined" is the value of a column that does not
\* exist in the row object.
\* ------------------------------------------------------------------------
NumCell(n, d) == [txt |-> "num", v |-> Rat(n, d)]
BlankCell == [txt |-> "blank", v |-> Zero]
JunkCell == [txt |-> "junk", v |-> Zero]
Undefined == [txt |-> "undefined", v |-> Zero]

parseFloat(cell) == IF cell.txt = "num" THEN cell.v ELSE NaN

\* parseInt keeps the integer part of a numeric text (truncation toward zero)
parseInt(cell) ==
  IF cell.txt = "num"
  THEN LET q == Abs(cell.v.n) \div cell.v.d
       IN  Int2Num(IF cell.v.n < 0 THEN -q ELSE q)
  ELSE NaN

\* ------------------------------------------------------------------------
\* Statistics helpers
\* ------------------------------------------------------------------------
RECURSIVE SumSeq(_)
SumSeq(values) ==
  IF values = << >> THEN Zero ELSE Add(Head(values), SumSeq(Tail(values)))

\* mean(values): 0 for an empty array, else sum / length
mean(values) ==
  IF Len(values) = 0 THEN Zero
  ELSE Div(SumSeq(values), Int2Num(Len(values)))

\* Math.sqrt is kept exact: [k |-> "sqrt", n, d] is the non-negative root
\* of n/d.
Sqrt(a) == [k |-> "sqrt", n |-> a.n, d |-> a.d]
SqrtIsZero(s) == s.n = 0

\* mutant: sample standard deviation (divisor length - 1)
stdDev_sample(values) ==
  IF Len(values) = 0 THEN Sqrt(Zero)
  ELSE LET avg == mean(values)
           squareDiffs == [i \in 1..Len(values) |->
                             Mul(Sub(values[i], avg), Sub(values[i], avg))]
       IN  IF Len(values) = 1 THEN Sqrt(Zero)
           ELSE Sqrt(Div(SumSeq(squareDiffs), Int2Num(Len(values) - 1)))

\* stdDev(values): 0 for an empty array, else the root of the mean of the
\* squared deviations from the mean (divisor: length)
stdDev(values) ==
  IF Len(values) = 0 THEN Sqrt(Zero)
  ELSE LET avg == mean(values)
           squareDiffs == [i \in 1..Len(values) |->
                             Mul(Sub(values[i], avg), Sub(values[i], avg))]
           avgSquareDiff == mean(squareDiffs)
       IN  Sqrt(avgSquareDiff)

\* ------------------------------------------------------------------------
\* Rows.  parseCSV turns each line into an object keyed by the header
\* names, so a row is the sequence of its cells in header order.
\* ------------------------------------------------------------------------
\* row[name]
Field(row, columns, name) ==
  IF \E i \in 1..Len(columns) : columns[i] = name /\ i <= Len(row)
  THEN row[CHOOSE i \in 1..Len(columns) : columns[i] = name /\ i <= Len(row)]
  ELSE Undefined

\* row[columns[index]] for a zero-based index; an index outside the header
\* (findIndex's -1 included) names no column
CellAt(row, columns, index) ==
  IF index >= 0 /\ index < Len(columns)
  THEN Field(row, columns, columns[index + 1])
  ELSE Undefined

RowTime(row, columns) == parseInt(Field(row, columns, "Time"))

\* The inclusion test of every aggregation loop:
\*   if (!isNaN(val) && val > 0) values.push(val)
Included(val) == ~IsNaN(val) /\ Gt(val, Zero)

\* mutant: a row with an excluded latency or throughput cell is dropped whole
metricValues_rowwise(data, columns, index) ==
  LET Both(row) == /\ Included(parseFloat(CellAt(row, columns, 2)))
                   /\ Included(parseFloat(CellAt(row, columns, 3)))
      rows == SelectSeq(data, Both)
      vals == [i \in 1..Len(rows) |-> parseFloat(CellAt(rows[i], columns, index))]
  IN  SelectSeq(vals, Included)

\* latencyValues / throughputValues of a window: the included values of the
\* column at `index`, in row order
metricValues(data, columns, index) ==
  LET vals == [i \in 1..Len(data) |-> parseFloat(CellAt(data[i], columns, index))]
  IN  SelectSeq(vals, Included)

\* ------------------------------------------------------------------------
\* Timestamps
\* ------------------------------------------------------------------------
\* A "Termination Time" token: a numeric text, a calendar date text (ms is
\* what Date(...).getTime() gives for it) or text that is neither.
\* A numeric text is the decimal hi * 10^6 + lo + milli / 1000 (two limbs of
\* 10^6 for the integer part, so that epoch milliseconds fit).
DecimalToken(hi, lo, milli) ==
  [txt |-> "num", hi |-> hi, lo |-> lo, milli |-> milli, ms |-> 0]
NumToken(n) == DecimalToken(n \div 1000000, n % 1000000, 0)
DateToken(ms) == [txt |-> "date", hi |-> 0, lo |-> 0, milli |-> 0, ms |-> ms]
JunkToken == [txt |-> "junk", hi |-> 0, lo |-> 0, milli |-> 0, ms |-> 0]

\* the integer hi * 10^6 + lo as a number; beyond the checker's integers it
\* stays in limbs
Limbs(hi, lo) ==
  IF hi < 2000 THEN Int2Num(hi * 1000000 + lo)
  ELSE [k |-> "big", hi |-> hi, lo |-> lo]

\* num > 1000000000000 for num = parseInt(timestamp), which drops the
\* fraction digits
ExceedsMsThreshold(num) ==
  \/ num.hi > 1000000
  \/ (num.hi = 1000000 /\ num.lo > 0)

parseTimestamp(timestamp) ==
  IF timestamp.txt = "num"
  THEN IF ExceedsMsThreshold(timestamp)
       THEN Limbs(timestamp.hi, timestamp.lo)
       ELSE Limbs(timestamp.hi * 1000 + ((timestamp.lo * 1000) \div 1000000),
                  (timestamp.lo * 1000) % 1000000)
  ELSE IF timestamp.txt = "date" THEN Int2Num(timestamp.ms) ELSE NaN

\* mutant: the before slice reaches back to the start of the series
beforeData_allEarlier(timeSeriesData, columns, terminationTime, windowSeconds) ==
  LET Keep(row) == Lt(RowTime(row, columns), terminationTime)
  IN  SelectSeq(timeSeriesData, Keep)

\* mutant: the window start is exclusive
beforeData_strictStart(timeSeriesData, columns, terminationTime, windowSeconds) ==
  LET windowStart == Sub(terminationTime, Int2Num(windowSeconds * 1000))
      Keep(row) == /\ Gt(RowTime(row, columns), windowStart)
                   /\ Lt(RowTime(row, columns), terminationTime)
  IN  SelectSeq(timeSeriesData, Keep)

\* ------------------------------------------------------------------------
\* Window extraction
\* ------------------------------------------------------------------------
\* rows with windowStart <= Time < terminationTime
beforeData(timeSeriesData, columns, terminationTime, windowSeconds) ==
  LET windowStart == Sub(terminationTime, Int2Num(windowSeconds * 1000))
      Keep(row) == /\ Ge(RowTime(row, columns), windowStart)
                   /\ Lt(RowTime(row, columns), terminationTime)
  IN  SelectSeq(timeSeriesData, Keep)

\* mutant: the termination instant itself counts as "after"
afterData_inclusive(timeSeriesData, columns, terminationTime, windowSeconds) ==
  LET windowEnd == Add(terminationTime, Int2Num(windowSeconds * 1000))
      Keep(row) == /\ Ge(RowTime(row, columns), terminationTime)
                   /\ Le(RowTime(row, columns), windowEnd)
  IN  SelectSeq(timeSeriesData, Keep)

\* rows with terminationTime < Time <= windowEnd
afterData(timeSeriesData, columns, terminationTime, windowSeconds) ==
  LET windowEnd == Add(terminationTime, Int2Num(windowSeconds * 1000))
      Keep(row) == /\ Gt(RowTime(row, columns), terminationTime)
                   /\ Le(RowTime(row, columns), windowEnd)
  IN  SelectSeq(timeSeriesData, Keep)

Null == [isNull |-> TRUE]

\* the per-metric object of getMetricsBeforeTermination
MetricStat(values) ==
  [mean |-> mean(values), stdDev |-> stdDev(values),
   values |-> values, count |-> Len(values)]

\* the per-metric object of getMetricsAfterTermination (no stdDev)
MetricStatAfter(values) ==
  [mean |-> mean(values), values |-> values, count |-> Len(values)]

\* mutant: the bounds 0 and 1 count as failures
hasFailures_inclusive(data, columns) ==
  \E i \in 4..(Len(columns) - 1) :
    \E r \in 1..Len(data) :
      LET value == parseFloat(CellAt(data[r], columns, i))
      IN  ~IsNaN(value) /\ Ge(value, Zero) /\ Le(value, Int2Num(1))

\* hasFailures: some check-rate column (index 4 and up) holds a value
\* strictly between 0 and 1 in the window
hasFailures(data, columns) ==
  \E i \in 4..(Len(columns) - 1) :
    \E r \in 1..Len(data) :
      LET value == parseFloat(CellAt(data[r], columns, i))
      IN  ~IsNaN(value) /\ Gt(value, Zero) /\ Lt(value, Int2Num(1))

\* successRate of the column-lookup revision: 100 - mean(checkRates) * 100
\* over the values in [0, 1] of the known check columns; 100 when none
RECURSIVE checkRates(_, _, _)
checkRates(data, columns, checkColumns) ==
  IF checkColumns = << >> THEN << >>
  ELSE LET vals == [r \in 1..Len(data) |->
                      parseFloat(CellAt(data[r], columns, Head(checkColumns)))]
           InRange(value) == ~IsNaN(value) /\ Ge(value, Zero) /\ Le(value, Int2Num(1))
       IN  SelectSeq(vals, InRange) \o checkRates(data, columns, Tail(checkColumns))

\* mutant: only the first check column found is averaged
successRate_firstColumn(data, columns, checkColumns) ==
  LET rates == checkRates(data, columns,
                          IF checkColumns = << >> THEN << >> ELSE << Head(checkColumns) >>)
  IN  IF Len(rates) > 0
      THEN Sub(Int2Num(100), Mul(mean(rates), Int2Num(100)))
      ELSE Int2Num(100)

successRate(data, columns, checkColumns) ==
  LET rates == checkRates(data, columns, checkColumns)
  IN  IF Len(rates) > 0
      THEN Sub(Int2Num(100), Mul(mean(rates), Int2Num(100)))
      ELSE Int2Num(100)

getMetricsBeforeTermination(timeSeriesData, columns, terminationTime, columnIndices, windowSeconds) ==
  LET data == beforeData(timeSeriesData, columns, terminationTime, windowSeconds)
  IN  IF Len(data) = 0 THEN Null
      ELSE [isNull |-> FALSE,
            latency |-> MetricStat(metricValues(data, columns, columnIndices.latency)),
            throughput |-> MetricStat(metricValues(data, columns, columnIndices.throughput)),
            windowSeconds |-> windowSeconds]

\* Both revisions in one record: hasFailures is what statistical-analysis.js
\* returns, successRate what the column-lookup revision returns.
getMetricsAfterTermination(timeSeriesData, columns, terminationTime, columnIndices, windowSeconds) ==
  LET data == afterData(timeSeriesData, columns, terminationTime, windowSeconds)
  IN  IF Len(data) = 0 THEN Null
      ELSE [isNull |-> FALSE,
            latency |-> MetricStatAfter(metricValues(data, columns, columnIndices.latency)),
            throughput |-> MetricStatAfter(metricValues(data, columns, columnIndices.throughput)),
            windowSeconds |-> windowSeconds,
            hasFailures |-> hasFailures(data, columns),
            successRate |-> successRate(data, columns, columnIndices.checkColumns)]

\* mutant: the difference is taken relative to the new value
calculatePercentageChange_overValue(value, baselineMean) ==
  IF Eq(baselineMean, Zero) THEN Zero
  ELSE Mul(Div(Sub(value, baselineMean), value), Int2Num(100))

\* mutant: the zero-baseline guard is missing
calculatePercentageChange_unguarded(value, baselineMean) ==
  Mul(Div(Sub(value, baselineMean), baselineMean), Int2Num(100))

\* ------------------------------------------------------------------------
\* Deviation measures and significance labels
\* ------------------------------------------------------------------------
calculatePercentageChange(value, baselineMean) ==
  IF Eq(baselineMean, Zero) THEN Zero
  ELSE Mul(Div(Sub(value, baselineMean), baselineMean), Int2Num(100))

\* mutant: a change on a threshold takes the upper label
assessSignificance_inclusive(percentageChange) ==
  LET absChange == NumAbs(percentageChange)
  IN  IF Ge(absChange, Int2Num(10)) THEN "Highly Significant"
      ELSE IF Ge(absChange, Int2Num(5)) THEN "Significant"
      ELSE IF Ge(absChange, Int2Num(2)) THEN "Marginal"
      ELSE "Not Significant"

\* mutant: the change is compared with its sign (no Math.abs)
assessSignificance_signed(percentageChange) ==
  IF Gt(percentageChange, Int2Num(10)) THEN "Highly Significant"
  ELSE IF Gt(percentageChange, Int2Num(5)) THEN "Significant"
  ELSE IF Gt(percentageChange, Int2Num(2)) THEN "Marginal"
  ELSE "Not Significant"


assessSignificance(percentageChange) ==
  LET absChange == NumAbs(percentageChange)
  IN  IF Gt(absChange, Int2Num(10)) THEN "Highly Significant"
      ELSE IF Gt(absChange, Int2Num(5)) THEN "Significant"
      ELSE IF Gt(absChange, Int2Num(2)) THEN "Marginal"
      ELSE "Not Significant"

\* A z-score divides by a square root, so it is kept as its sign and its
\* square: [sgn, sq] stands for sgn * sqrt(sq).
ZeroZ == [sgn |-> 0, sq |-> Zero]

\* mutant: the zero-deviation guard is missing
calculateZScore_unguarded(value, baselineMean, baselineStdDev) ==
  LET diff == Sub(value, baselineMean)
      var == Rat(baselineStdDev.n, baselineStdDev.d)
  IN  [sgn |-> IF diff.n > 0 THEN 1 ELSE IF diff.n < 0 THEN -1 ELSE 0,
       sq |-> Div(Mul(diff, diff), var)]


calculateZScore(value, baselineMean, baselineStdDev) ==
  IF SqrtIsZero(baselineStdDev) THEN ZeroZ
  ELSE LET diff == Sub(value, baselineMean)
           var == Rat(baselineStdDev.n, baselineStdDev.d)
       IN  [sgn |-> IF diff.n > 0 THEN 1 ELSE IF diff.n < 0 THEN -1 ELSE 0,
            sq |-> Div(Mul(diff, diff), var)]

\* mutant: a z-score on a threshold takes the upper label
assessSignificanceByZScore_inclusive(zScore) ==
  IF Ge(zScore.sq, Rat(16641, 2500)) THEN "Highly Significant"
  ELSE IF Ge(zScore.sq, Rat(2401, 625)) THEN "Significant"
  ELSE IF Ge(zScore.sq, Rat(1024, 625)) THEN "Marginal"
  ELSE "Not Significant"

\* |z| > c  iff  z^2 > c^2 : 2.58^2 = 16641/2500, 1.96^2 = 2401/625,
\* 1.28^2 = 1024/625
assessSignificanceByZScore(zScore) ==
  IF Gt(zScore.sq, Rat(16641, 2500)) THEN "Highly Significant"
  ELSE IF Gt(zScore.sq, Rat(2401, 625)) THEN "Significant"
  ELSE IF Gt(zScore.sq, Rat(1024, 625)) THEN "Marginal"
  ELSE "Not Significant"

\* ------------------------------------------------------------------------
\* Global baseline
\* ------------------------------------------------------------------------
Exit == [exit |-> TRUE, start |-> NaN, end |-> NaN, size |-> 0]

\* mutant: the margin is cut at the start of the series only
findBaselineWindowByTime_noEndTrim(timeSeriesData, columns, omitSeconds) ==
  IF Len(timeSeriesData) = 0 THEN Exit
  ELSE LET firstTimestamp == RowTime(timeSeriesData[1], columns)
           lastTimestamp == RowTime(timeSeriesData[Len(timeSeriesData)], columns)
           omitMillis == Int2Num(omitSeconds * 1000)
           baselineStart == Add(firstTimestamp, omitMillis)
           baselineEnd == lastTimestamp
           Keep(row) == /\ Ge(RowTime(row, columns), baselineStart)
                        /\ Le(RowTime(row, columns), baselineEnd)
           baselineSamples == SelectSeq(timeSeriesData, Keep)
       IN  IF Len(baselineSamples) = 0 THEN Exit
           ELSE [exit |-> FALSE, start |-> baselineStart, end |-> baselineEnd,
                 size |-> Len(baselineSamples)]

\* mutant: an empty baseline window is returned instead of exiting
findBaselineWindowByTime_noEmptyCheck(timeSeriesData, columns, omitSeconds) ==
  IF Len(timeSeriesData) = 0 THEN Exit
  ELSE LET firstTimestamp == RowTime(timeSeriesData[1], columns)
           lastTimestamp == RowTime(timeSeriesData[Len(timeSeriesData)], columns)
           omitMillis == Int2Num(omitSeconds * 1000)
           baselineStart == Add(firstTimestamp, omitMillis)
           baselineEnd == Sub(lastTimestamp, omitMillis)
           Keep(row) == /\ Ge(RowTime(row, columns), baselineStart)
                        /\ Le(RowTime(row, columns), baselineEnd)
           baselineSamples == SelectSeq(timeSeriesData, Keep)
       IN  [exit |-> FALSE, start |-> baselineStart, end |-> baselineEnd,
            size |-> Len(baselineSamples)]


findBaselineWindowByTime(timeSeriesData, columns, omitSeconds) ==
  IF Len(timeSeriesData) = 0 THEN Exit
  ELSE LET firstTimestamp == RowTime(timeSeriesData[1], columns)
           lastTimestamp == RowTime(timeSeriesData[Len(timeSeriesData)], columns)
           omitMillis == Int2Num(omitSeconds * 1000)
           baselineStart == Add(firstTimestamp, omitMillis)
           baselineEnd == Sub(lastTimestamp, omitMillis)
           Keep(row) == /\ Ge(RowTime(row, columns), baselineStart)
                        /\ Le(RowTime(row, columns), baselineEnd)
           baselineSamples == SelectSeq(timeSeriesData, Keep)
       IN  IF Len(baselineSamples) = 0 THEN Exit
           ELSE [exit |-> FALSE, start |-> baselineStart, end |-> baselineEnd,
                 size |-> Len(baselineSamples)]

\* rows of the baseline window, as calculateBaselineStats filters them
baselineData(timeSeriesData, columns, baselineWindow) ==
  LET Keep(row) == /\ Ge(RowTime(row, columns), baselineWindow.start)
                   /\ Le(RowTime(row, columns), baselineWindow.end)
  IN  SelectSeq(timeSeriesData, Keep)

calculateBaselineStats(timeSeriesData, columns, baselineWindow, columnIndices) ==
  LET data == baselineData(timeSeriesData, columns, baselineWindow)
      latencyValues == metricValues(data, columns, columnIndices.latency)
      throughputValues == metricValues(data, columns, columnIndices.throughput)
  IN  [computed |-> TRUE,
       latency |-> [mean |-> mean(latencyValues), stdDev |-> stdDev(latencyValues),
                    count |-> Len(latencyValues)],
       throughput |-> [mean |-> mean(throughputValues), stdDev |-> stdDev(throughputValues),
                       count |-> Len(throughputValues)]]

NoStats ==
  [computed |-> FALSE,
   latency |-> [mean |-> Zero, stdDev |-> Sqrt(Zero), count |-> 0],
   throughput |-> [mean |-> Zero, stdDev |-> Sqrt(Zero), count |-> 0]]

\* ------------------------------------------------------------------------
\* Linear detrending
\* ------------------------------------------------------------------------
RECURSIVE SeqGCD(_)
SeqGCD(xs) == IF xs = << >> THEN 0 ELSE GCD(Abs(Head(xs).n), SeqGCD(Tail(xs)))

\* slope = (n*sumXY - sumX*sumY) / (n*sumXX - sumX*sumX),
\* intercept = (sumY - slope*sumX) / n.
\* The sums are taken over x / u, u the common divisor of the x values, and
\* the slope is divided by u afterwards: the same quotients with u cancelled,
\* which keeps the intermediate products small.
linearRegression(xValues, yValues) ==
  LET n == Int2Num(Len(xValues))
      g == SeqGCD(xValues)
      u == Int2Num(IF g = 0 THEN 1 ELSE g)
      xs == [i \in 1..Len(xValues) |-> Div(xValues[i], u)]
      sumX == SumSeq(xs)
      sumY == SumSeq(yValues)
      sumXY == SumSeq([i \in 1..Len(xs) |-> Mul(xs[i], yValues[i])])
      sumXX == SumSeq([i \in 1..Len(xs) |-> Mul(xs[i], xs[i])])
      num == Sub(Mul(n, sumXY), Mul(sumX, sumY))
      den == Sub(Mul(n, sumXX), Mul(sumX, sumX))
      slopeU == IF IsNaN(den) \/ IsNaN(num) \/ den.n = 0 THEN NaN ELSE Div(num, den)
      slope == Div(slopeU, u)
      intercept == Div(Sub(sumY, Mul(slopeU, sumX)), n)
  IN  [slope |-> slope, intercept |-> intercept]

\* mutant: the series mean is not added back
detrendData_noRecentre(timeSeriesData, columns, columnIndices) ==
  LET N == Len(timeSeriesData)
      timestamps == [i \in 1..N |-> RowTime(timeSeriesData[i], columns)]
      Keep0(v) == IF Included(v) THEN v ELSE Zero
      latencyValues == [i \in 1..N |->
          Keep0(parseFloat(CellAt(timeSeriesData[i], columns, columnIndices.latency)))]
      throughputValues == [i \in 1..N |->
          Keep0(parseFloat(CellAt(timeSeriesData[i], columns, columnIndices.throughput)))]
      latencyRegression == linearRegression(timestamps, latencyValues)
      throughputRegression == linearRegression(timestamps, throughputValues)
      Pos(v) == Gt(v, Zero)
      latencyMean == mean(SelectSeq(latencyValues, Pos))
      throughputMean == mean(SelectSeq(throughputValues, Pos))
      Detrend(v, reg, t, m) ==
        IF Gt(v, Zero)
        THEN Sub(v, Add(Mul(reg.slope, t), reg.intercept))
        ELSE v
  IN  [data |-> [i \in 1..N |->
                   [row |-> timeSeriesData[i],
                    detrendedLatency |->
                      Detrend(latencyValues[i], latencyRegression, timestamps[i], latencyMean),
                    detrendedThroughput |->
                      Detrend(throughputValues[i], throughputRegression, timestamps[i], throughputMean)]],
       latencyRegression |-> latencyRegression,
       throughputRegression |-> throughputRegression,
       latencyMean |-> latencyMean,
       throughputMean |-> throughputMean]


detrendData(timeSeriesData, columns, columnIndices) ==
  LET N == Len(timeSeriesData)
      timestamps == [i \in 1..N |-> RowTime(timeSeriesData[i], columns)]
      Keep0(v) == IF Included(v) THEN v ELSE Zero
      latencyValues == [i \in 1..N |->
          Keep0(parseFloat(CellAt(timeSeriesData[i], columns, columnIndices.latency)))]
      throughputValues == [i \in 1..N |->
          Keep0(parseFloat(CellAt(timeSeriesData[i], columns, columnIndices.throughput)))]
      latencyRegression == linearRegression(timestamps, latencyValues)
      throughputRegression == linearRegression(timestamps, throughputValues)
      Pos(v) == Gt(v, Zero)
      latencyMean == mean(SelectSeq(latencyValues, Pos))
      throughputMean == mean(SelectSeq(throughputValues, Pos))
      Detrend(v, reg, t, m) ==
        IF Gt(v, Zero)
        THEN Add(Sub(v, Add(Mul(reg.slope, t), reg.intercept)), m)
        ELSE v
  IN  [data |-> [i \in 1..N |->
                   [row |-> timeSeriesData[i],
                    detrendedLatency |->
                      Detrend(latencyValues[i], latencyRegression, timestamps[i], latencyMean),
                    detrendedThroughput |->
                      Detrend(throughputValues[i], throughputRegression, timestamps[i], throughputMean)]],
       latencyRegression |-> latencyRegression,
       throughputRegression |-> throughputRegression,
       latencyMean |-> latencyMean,
       throughputMean |-> throughputMean]

NoDetrend ==
  [data |-> << >>,
   latencyRegression |-> [slope |-> NaN, intercept |-> NaN],
   throughputRegression |-> [slope |-> NaN, intercept |-> NaN],
   latencyMean |-> Zero, throughputMean |-> Zero]

\* ------------------------------------------------------------------------
\* Result records.  Field names drop the blanks and signs of the CSV headers
\* ('Latency Change (%)' is LatencyChange).  Decimal renderings of roots and
\* z-scores keep the exact value.
\* ------------------------------------------------------------------------
sqrtFixed(s) == [txt |-> "sqrt", n |-> s.n, d |-> s.d]
zFixed(z) == [txt |-> "z", sgn |-> z.sgn, sq |-> z.sq]
percentText(a) == [txt |-> "percent", scaled |-> toFixed(a, 2).scaled, digits |-> 2]

YesNo(b) == IF b THEN "YES" ELSE "NO"

\* the locals of one forEach callback, kept after it returns
Locals(terminationTime, before, after, metricsBefore, metricsAfter) ==
  [valid |-> TRUE, terminationTime |-> terminationTime,
   beforeSamples |-> before, afterSamples |-> after,
   metricsBefore |-> metricsBefore, metricsAfter |-> metricsAfter]

NoLocals ==
  [valid |-> FALSE, terminationTime |-> NaN,
   beforeSamples |-> << >>, afterSamples |-> << >>,
   metricsBefore |-> Null, metricsAfter |-> Null]

\* --- Method 0, one termination (statistical-analysis.js) ---
globalRecord(termination, metricsAfter, baselineStats) ==
  IF metricsAfter.isNull \/ metricsAfter.latency.count = 0
  THEN [Pod |-> termination.Pod,
        TerminationTime |-> termination.TerminationTime,
        Status |-> termination.Status,
        SamplesAfter |-> 0,
        BaselineLatencyMean |-> toFixed(baselineStats.latency.mean, 4),
        AfterLatencyMean |-> NA,
        LatencyChange |-> NA,
        LatencySignificance |-> "N/A",
        BaselineThroughputMean |-> toFixed(baselineStats.throughput.mean, 4),
        AfterThroughputMean |-> NA,
        ThroughputChange |-> NA,
        ThroughputSignificance |-> "N/A",
        FailuresDetected |-> "N/A"]
  ELSE LET latencyChange ==
             calculatePercentageChange(metricsAfter.latency.mean, baselineStats.latency.mean)
           throughputChange ==
             calculatePercentageChange(metricsAfter.throughput.mean, baselineStats.throughput.mean)
       IN  [Pod |-> termination.Pod,
            TerminationTime |-> termination.TerminationTime,
            Status |-> termination.Status,
            SamplesAfter |-> metricsAfter.latency.count,
            BaselineLatencyMean |-> toFixed(baselineStats.latency.mean, 4),
            AfterLatencyMean |-> toFixed(metricsAfter.latency.mean, 4),
            LatencyChange |-> toFixed(latencyChange, 2),
            LatencySignificance |-> assessSignificance(latencyChange),
            BaselineThroughputMean |-> toFixed(baselineStats.throughput.mean, 4),
            AfterThroughputMean |-> toFixed(metricsAfter.throughput.mean, 4),
            ThroughputChange |-> toFixed(throughputChange, 2),
            ThroughputSignificance |-> assessSignificance(throughputChange),
            FailuresDetected |-> YesNo(metricsAfter.hasFailures)]

\* --- Method 0, one termination (column-lookup revision) ---
globalRecordZ(termination, metricsAfter, baselineStats) ==
  IF metricsAfter.isNull \/ metricsAfter.latency.count = 0
  THEN [Pod |-> termination.Pod,
        TerminationTime |-> termination.TerminationTime,
        Status |-> termination.Status,
        SamplesAfter |-> 0,
        BaselineLatencyMean |-> toFixed(baselineStats.latency.mean, 4),
        BaselineLatencyStdDev |-> sqrtFixed(baselineStats.latency.stdDev),
        AfterLatencyMean |-> NA,
        LatencyChange |-> NA,
        LatencyZScore |-> NA,
        LatencySignificance |-> "N/A",
        BaselineThroughputMean |-> toFixed(baselineStats.throughput.mean, 4),
        BaselineThroughputStdDev |-> sqrtFixed(baselineStats.throughput.stdDev),
        AfterThroughputMean |-> NA,
        ThroughputZScore |-> NA,
        ThroughputSignificance |-> "N/A",
        SuccessRate |-> NA]
  ELSE LET latencyChange ==
             calculatePercentageChange(metricsAfter.latency.mean, baselineStats.latency.mean)
           latencyZScore ==
             calculateZScore(metricsAfter.latency.mean, baselineStats.latency.mean,
                             baselineStats.latency.stdDev)
           throughputZScore ==
             calculateZScore(metricsAfter.throughput.mean, baselineStats.throughput.mean,
                             baselineStats.throughput.stdDev)
       IN  [Pod |-> termination.Pod,
            TerminationTime |-> termination.TerminationTime,
            Status |-> termination.Status,
            SamplesAfter |-> metricsAfter.latency.count,
            BaselineLatencyMean |-> toFixed(baselineStats.latency.mean, 4),
            BaselineLatencyStdDev |-> sqrtFixed(baselineStats.latency.stdDev),
            AfterLatencyMean |-> toFixed(metricsAfter.latency.mean, 4),
            LatencyChange |-> toFixed(latencyChange, 2),
            LatencyZScore |-> zFixed(latencyZScore),
            LatencySignificance |-> assessSignificance(latencyChange),
            BaselineThroughputMean |-> toFixed(baselineStats.throughput.mean, 4),
            BaselineThroughputStdDev |-> sqrtFixed(baselineStats.throughput.stdDev),
            AfterThroughputMean |-> toFixed(metricsAfter.throughput.mean, 4),
            ThroughputZScore |-> zFixed(throughputZScore),
            ThroughputSignificance |-> assessSignificanceByZScore(throughputZScore),
            SuccessRate |-> percentText(metricsAfter.successRate)]

\* --- Method 1, one termination (statistical-analysis.js) ---
\* mutant: the "no data after" record carries figures of an empty after-window
localNoAfterRecord_figures(termination, metricsBefore) ==
  [Pod |-> termination.Pod,
   TerminationTime |-> termination.TerminationTime,
   Status |-> termination.Status,
   SamplesBefore |-> metricsBefore.latency.count,
   SamplesAfter |-> 0,
   BeforeLatencyMean |-> toFixed(metricsBefore.latency.mean, 4),
   AfterLatencyMean |-> toFixed(Zero, 4),
   LatencyChange |-> toFixed(calculatePercentageChange(Zero, metricsBefore.latency.mean), 2),
   LatencySignificance |->
     assessSignificance(calculatePercentageChange(Zero, metricsBefore.latency.mean)),
   BeforeThroughputMean |-> toFixed(metricsBefore.throughput.mean, 4),
   AfterThroughputMean |-> NA,
   ThroughputChange |-> NA,
   ThroughputSignificance |-> "N/A",
   FailuresDetected |-> "N/A"]

\* the record pushed when there is no data after the termination
localNoAfterRecord(termination, metricsBefore) ==
  [Pod |-> termination.Pod,
   TerminationTime |-> termination.TerminationTime,
   Status |-> termination.Status,
   SamplesBefore |-> metricsBefore.latency.count,
   SamplesAfter |-> 0,
   BeforeLatencyMean |-> toFixed(metricsBefore.latency.mean, 4),
   AfterLatencyMean |-> NA,
   LatencyChange |-> NA,
   LatencySignificance |-> "N/A",
   BeforeThroughputMean |-> toFixed(metricsBefore.throughput.mean, 4),
   AfterThroughputMean |-> NA,
   ThroughputChange |-> NA,
   ThroughputSignificance |-> "N/A",
   FailuresDetected |-> "N/A"]

localRecord(termination, metricsBefore, metricsAfter) ==
  IF metricsBefore.isNull \/ metricsBefore.latency.count = 0
  THEN [Pod |-> termination.Pod,
        TerminationTime |-> termination.TerminationTime,
        Status |-> termination.Status,
        SamplesBefore |-> 0,
        SamplesAfter |-> IF ~metricsAfter.isNull THEN metricsAfter.latency.count ELSE 0,
        BeforeLatencyMean |-> NA,
        AfterLatencyMean |-> NA,
        LatencyChange |-> NA,
        LatencySignificance |-> "N/A",
        BeforeThroughputMean |-> NA,
        AfterThroughputMean |-> NA,
        ThroughputChange |-> NA,
        ThroughputSignificance |-> "N/A",
        FailuresDetected |->
          IF ~metricsAfter.isNull /\ metricsAfter.hasFailures THEN "YES" ELSE "N/A"]
  ELSE IF metricsAfter.isNull \/ metricsAfter.latency.count = 0
  THEN localNoAfterRecord(termination, metricsBefore)
  ELSE LET latencyChange ==
             calculatePercentageChange(metricsAfter.latency.mean, metricsBefore.latency.mean)
           throughputChange ==
             calculatePercentageChange(metricsAfter.throughput.mean, metricsBefore.throughput.mean)
       IN  [Pod |-> termination.Pod,
            TerminationTime |-> termination.TerminationTime,
            Status |-> termination.Status,
            SamplesBefore |-> metricsBefore.latency.count,
            SamplesAfter |-> metricsAfter.latency.count,
            BeforeLatencyMean |-> toFixed(metricsBefore.latency.mean, 4),
            AfterLatencyMean |-> toFixed(metricsAfter.latency.mean, 4),
            LatencyChange |-> toFixed(latencyChange, 2),
            LatencySignificance |-> assessSignificance(latencyChange),
            BeforeThroughputMean |-> toFixed(metricsBefore.throughput.mean, 4),
            AfterThroughputMean |-> toFixed(metricsAfter.throughput.mean, 4),
            ThroughputChange |-> toFixed(throughputChange, 2),
            ThroughputSignificance |-> assessSignificance(throughputChange),
            FailuresDetected |-> YesNo(metricsAfter.hasFailures)]

\* --- Method 1, one termination (column-lookup revision) ---
localRecordZ(termination, metricsBefore, metricsAfter, baselineThroughputStdDev) ==
  IF metricsBefore.isNull \/ metricsBefore.latency.count = 0
  THEN [Pod |-> termination.Pod,
        TerminationTime |-> termination.TerminationTime,
        Status |-> termination.Status,
        SamplesBefore |-> 0,
        SamplesAfter |-> IF ~metricsAfter.isNull THEN metricsAfter.latency.count ELSE 0,
        BeforeLatencyMean |-> NA,
        BeforeLatencyStdDev |-> NA,
        AfterLatencyMean |-> NA,
        LatencyChange |-> NA,
        LatencyZScore |-> NA,
        LatencySignificance |-> "N/A",
        BeforeThroughputMean |-> NA,
        BaselineThroughputStdDev |-> sqrtFixed(baselineThroughputStdDev),
        AfterThroughputMean |-> NA,
        ThroughputZScore |-> NA,
        ThroughputSignificance |-> "N/A",
        SuccessRate |->
          IF ~metricsAfter.isNull THEN percentText(metricsAfter.successRate) ELSE NA]
  ELSE IF metricsAfter.isNull \/ metricsAfter.latency.count = 0
  THEN [Pod |-> termination.Pod,
        TerminationTime |-> termination.TerminationTime,
        Status |-> termination.Status,
        SamplesBefore |-> metricsBefore.latency.count,
        SamplesAfter |-> 0,
        BeforeLatencyMean |-> toFixed(metricsBefore.latency.mean, 4),
        BeforeLatencyStdDev |-> sqrtFixed(metricsBefore.latency.stdDev),
        AfterLatencyMean |-> NA,
        LatencyChange |-> NA,
        LatencyZScore |-> NA,
        LatencySignificance |-> "N/A",
        BeforeThroughputMean |-> toFixed(metricsBefore.throughput.mean, 4),
        BaselineThroughputStdDev |-> sqrtFixed(baselineThroughputStdDev),
        AfterThroughputMean |-> NA,
        ThroughputZScore |-> NA,
        ThroughputSignificance |-> "N/A",
        SuccessRate |-> NA]
  ELSE LET latencyChange ==
             calculatePercentageChange(metricsAfter.latency.mean, metricsBefore.latency.mean)
           latencyZScore ==
             calculateZScore(metricsAfter.latency.mean, metricsBefore.latency.mean,
                             metricsBefore.latency.stdDev)
           throughputZScore ==
             calculateZScore(metricsAfter.throughput.mean, metricsBefore.throughput.mean,
                             baselineThroughputStdDev)
       IN  [Pod |-> termination.Pod,
            TerminationTime |-> termination.TerminationTime,
            Status |-> termination.Status,
            SamplesBefore |-> metricsBefore.latency.count,
            SamplesAfter |-> metricsAfter.latency.count,
            BeforeLatencyMean |-> toFixed(metricsBefore.latency.mean, 4),
            BeforeLatencyStdDev |-> sqrtFixed(metricsBefore.latency.stdDev),
            AfterLatencyMean |-> toFixed(metricsAfter.latency.mean, 4),
            LatencyChange |-> toFixed(latencyChange, 2),
            LatencyZScore |-> zFixed(latencyZScore),
            LatencySignificance |-> assessSignificance(latencyChange),
            BeforeThroughputMean |-> toFixed(metricsBefore.throughput.mean, 4),
            BaselineThroughputStdDev |-> sqrtFixed(baselineThroughputStdDev),
            AfterThroughputMean |-> toFixed(metricsAfter.throughput.mean, 4),
            ThroughputZScore |-> zFixed(throughputZScore),
            ThroughputSignificance |-> assessSignificanceByZScore(throughputZScore),
            SuccessRate |-> percentText(metricsAfter.successRate)]

\* --- Method 2, one termination ---
\* the before/after slices of the detrended rows
detrendedBefore(data, columns, terminationTime, beforeWindowSeconds) ==
  LET beforeWindowStart == Sub(terminationTime, Int2Num(beforeWindowSeconds * 1000))
      Keep(s) == /\ Ge(RowTime(s.row, columns), beforeWindowStart)
                 /\ Lt(RowTime(s.row, columns), terminationTime)
  IN  SelectSeq(data, Keep)

detrendedAfter(data, columns, terminationTime, afterWindowSeconds) ==
  LET afterWindowEnd == Add(terminationTime, Int2Num(afterWindowSeconds * 1000))
      Keep(s) == /\ Gt(RowTime(s.row, columns), terminationTime)
                 /\ Le(RowTime(s.row, columns), afterWindowEnd)
  IN  SelectSeq(data, Keep)

Positive(v) == Gt(v, Zero)

detrendedValues(samples, metric) ==
  SelectSeq([i \in 1..Len(samples) |->
               IF metric = "latency" THEN samples[i].detrendedLatency
               ELSE samples[i].detrendedThroughput], Positive)

detrendedRecord(termination, beforeSamples, afterSamples, columns) ==
  IF Len(beforeSamples) = 0 \/ Len(afterSamples) = 0
  THEN [Pod |-> termination.Pod,
        TerminationTime |-> termination.TerminationTime,
        Status |-> termination.Status,
        SamplesBefore |-> Len(beforeSamples),
        SamplesAfter |-> Len(afterSamples),
        BeforeDetrendedLatency |-> NA,
        AfterDetrendedLatency |-> NA,
        LatencyChange |-> NA,
        LatencySignificance |-> "N/A",
        BeforeDetrendedThroughput |-> NA,
        AfterDetrendedThroughput |-> NA,
        ThroughputChange |-> NA,
        ThroughputSignificance |-> "N/A",
        FailuresDetected |-> "N/A"]
  ELSE LET beforeLatencies == detrendedValues(beforeSamples, "latency")
           afterLatencies == detrendedValues(afterSamples, "latency")
           beforeThroughputs == detrendedValues(beforeSamples, "throughput")
           afterThroughputs == detrendedValues(afterSamples, "throughput")
           afterRows == [i \in 1..Len(afterSamples) |-> afterSamples[i].row]
           beforeLatencyMean == mean(beforeLatencies)
           afterLatencyMean == mean(afterLatencies)
           beforeThroughputMean == mean(beforeThroughputs)
           afterThroughputMean == mean(afterThroughputs)
           latencyChange == calculatePercentageChange(afterLatencyMean, beforeLatencyMean)
           throughputChange ==
             calculatePercentageChange(afterThroughputMean, beforeThroughputMean)
       IN  [Pod |-> termination.Pod,
            TerminationTime |-> termination.TerminationTime,
            Status |-> termination.Status,
            SamplesBefore |-> Len(beforeLatencies),
            SamplesAfter |-> Len(afterLatencies),
            BeforeDetrendedLatency |-> toFixed(beforeLatencyMean, 4),
            AfterDetrendedLatency |-> toFixed(afterLatencyMean, 4),
            LatencyChange |-> toFixed(latencyChange, 2),
            LatencySignificance |-> assessSignificance(latencyChange),
            BeforeDetrendedThroughput |-> toFixed(beforeThroughputMean, 4),
            AfterDetrendedThroughput |-> toFixed(afterThroughputMean, 4),
            ThroughputChange |-> toFixed(throughputChange, 2),
            ThroughputSignificance |-> assessSignificance(throughputChange),
            FailuresDetected |-> YesNo(hasFailures(afterRows, columns))]

\* ------------------------------------------------------------------------
\* Program constants
\* ------------------------------------------------------------------------
\* generateReport: findBaselineWindowByTime(..., 60)
OmitSeconds == 60
\* generateReport: analyzeWith...(..., 30, 30) and analyzeWithGlobalBaseline(..., 30)
BeforeWindowSeconds == 30
AfterWindowSeconds == 30

\* the known check-rate columns of the column-lookup revision
checkColumnNames ==
  << "SDK_E2E_STATUS_COMPLETED",
     "TRANSFERS__POST_TRANSFERS_RESPONSE_IS_200",
     "TRANSFERS__PUT_TRANSFERS_ACCEPT_CONVERSION_RESPONSE_IS_200",
     "TRANSFERS__PUT_TRANSFERS_ACCEPT_PARTY_RESPONSE_IS_200",
     "TRANSFERS__PUT_TRANSFERS_ACCEPT_QUOTE_RESPONSE_IS_200" >>

\* ------------------------------------------------------------------------
\* Explored inputs
\* ------------------------------------------------------------------------
\* header names that contain "Latency" / "Throughput"
LatencyNames == {"Latency", "P95 Latency"}
ThroughputNames == {"Throughput"}

HeaderFull == << "Time", "VUs", "Latency", "Throughput", "SDK_E2E_STATUS_COMPLETED" >>
HeaderNoLatency == << "Time", "VUs", "Duration", "Throughput", "SDK_E2E_STATUS_COMPLETED" >>
HeaderNoThroughput == << "Time", "VUs", "P95 Latency", "Requests", "SDK_E2E_STATUS_COMPLETED" >>
Headers == {HeaderFull, HeaderNoLatency, HeaderNoThroughput}
HeaderChecks ==
  << "Time", "VUs", "Latency", "Throughput", "SDK_E2E_STATUS_COMPLETED",
     "TRANSFERS__POST_TRANSFERS_RESPONSE_IS_200" >>

\* sample times (ms)
TimeGrid == {60000, 75000, 90000, 105000}

\* the metric cells of a row: third, fourth and fifth column
KindA == << NumCell(100, 1), NumCell(10, 1), BlankCell >>
KindB == << NumCell(500, 1), NumCell(-3, 1), NumCell(1, 5) >>
KindC == << NumCell(0, 1), NumCell(20, 1), NumCell(1, 1) >>
KindD == << JunkCell, BlankCell, NumCell(0, 1) >>
RowKinds == {KindA, KindB, KindC}

MakeRow(t, kind) == << NumCell(t, 1), NumCell(1, 1), kind[1], kind[2], kind[3] >>

SetMin(S) == CHOOSE x \in S : \A y \in S : x <= y

RECURSIVE SortedSeq(_)
SortedSeq(S) ==
  IF S = {} THEN << >>
  ELSE << SetMin(S) >> \o SortedSeq(S \ {SetMin(S)})

\* all series of at most maxLen rows, ascending by time
SeriesSet(maxLen) ==
  UNION { { [i \in 1..Cardinality(T) |-> MakeRow(SortedSeq(T)[i], f[SortedSeq(T)[i]])] :
            f \in [T -> RowKinds] } :
          T \in { U \in SUBSET TimeGrid : Cardinality(U) <= maxLen } }

\* rows of the pod-terminations file
EventPool ==
  { [Pod |-> "kafka-0", TerminationTime |-> NumToken(90), Status |-> "DELETED"],
    [Pod |-> "redis-0", TerminationTime |-> DateToken(105000), Status |-> "DRY_RUN"],
    [Pod |-> "kafka-1", TerminationTime |-> JunkToken, Status |-> "DELETE_ERROR"] }

EventLogs(maxLen) == UNION { [1..n -> EventPool] : n \in 0..maxLen }

\* clean-run files given as the second argument
NoCleanRun == [given |-> FALSE, columns |-> << >>, rows |-> << >>]
CleanRun(cols, rows) == [given |-> TRUE, columns |-> cols, rows |-> rows]

CleanRows ==
  << MakeRow(0, KindA), MakeRow(60000, KindA), MakeRow(90000, KindB),
     MakeRow(150000, KindC) >>

CleanRuns ==
  { NoCleanRun,
    CleanRun(HeaderFull, CleanRows),
    CleanRun(HeaderFull, SubSeq(CleanRows, 1, 2)),
    CleanRun(HeaderFull, << >>),
    CleanRun(HeaderNoLatency, CleanRows),
    CleanRun(HeaderNoThroughput, CleanRows) }

\* the series used with every header, every clean run and every event log
ProbeSeries ==
  { << >>,
    << MakeRow(60000, KindA), MakeRow(75000, KindB), MakeRow(90000, KindD),
       MakeRow(105000, KindA) >>,
    << MakeRow(0, KindA), MakeRow(60000, KindB), MakeRow(75000, KindD),
       MakeRow(105000, KindA), MakeRow(120000, KindB) >> }

\* cells of a check-rate column: empty, the bounds 0 and 1, a rate between
\* them, a number above 1 and text that is no number
CheckCells ==
  { BlankCell, NumCell(0, 1), NumCell(1, 5), NumCell(1, 1), NumCell(3, 2), JunkCell }

MakeCheckRow(t, c1, c2) ==
  << NumCell(t, 1), NumCell(1, 1), NumCell(100, 1), NumCell(10, 1), c1, c2 >>

\* series with two check-rate columns; the rows at 105 s and 120 s vary
CheckSeries ==
  { << MakeCheckRow(0, BlankCell, BlankCell),
       MakeCheckRow(75000, NumCell(1, 5), BlankCell),
       MakeCheckRow(105000, a, b),
       MakeCheckRow(120000, c, BlankCell),
       MakeCheckRow(150000, BlankCell, BlankCell) >> :
      a \in CheckCells, b \in CheckCells, c \in {BlankCell, NumCell(1, 1)} }

\* a steady latency of 100 with, or without, a tenfold spike in the first
\* sample after 90 s
KindS == << NumCell(1000, 1), NumCell(10, 1), NumCell(1, 5) >>

SpikeSeries ==
  { << MakeRow(60000, KindA), MakeRow(75000, KindA), MakeRow(105000, kind),
       MakeRow(120000, KindA) >> : kind \in {KindA, KindS} }

\* revisions of the script and the BASELINE_METHOD values each one routes
Impls == {"scripts", "lookup"}
Methods(i) == IF i = "scripts" THEN {0, 1, 2} ELSE {0, 1}

\* ------------------------------------------------------------------------
\* State
\* ------------------------------------------------------------------------
VARIABLES
  impl,             \* which revision of the script runs
  BASELINE_METHOD,  \* its BASELINE_METHOD setting
  columns,          \* header of k6-time-series.csv
  timeSeriesData,   \* rows of k6-time-series.csv
  cleanRun,         \* the optional clean-run file
  podTerminations,  \* rows of pod-terminations.csv
  pc,               \* "start", "analyze", "written", "exit", "crash"
  columnIndices,    \* generateReport's columnIndices
  baselineWindow,   \* method 0
  baselineStats,    \* method 0
  detrendResult,    \* method 2
  baselineThroughputStdDev,  \* method 1 of the column-lookup revision
  index,            \* terminations processed so far
  results,          \* the results array
  locals,           \* locals of the last forEach callback
  report,           \* rows written to statistical-analysis-report.csv
  call,             \* a function applied on its own: name, arguments, result
  poster,           \* create-grafana-annotations.js: main's locals and its requests
  killer            \* kill-pod-redis-kafka.sh: the shell variables and the deletions

vars == << impl, BASELINE_METHOD, columns, timeSeriesData, cleanRun, podTerminations,
           pc, columnIndices, baselineWindow, baselineStats, detrendResult,
           baselineThroughputStdDev, index, results, locals, report, call, poster, killer >>

\* what a run of the analysis script never assigns
inputs == << impl, BASELINE_METHOD, columns, timeSeriesData, cleanRun, podTerminations,
             call, poster, killer >>

NoCall == [fn |-> "none", args |-> << >>, done |-> TRUE, out |-> << >>]

\* main of create-grafana-annotations.js over the given rows, before its loop
PosterAt(rows) ==
  [podTerminations |-> rows, pc |-> "loop", i |-> 0,
   successCount |-> 0, failureCount |-> 0,
   requests |-> << >>, outcomes |-> << >>, sentAt |-> << >>, settledAt |-> << >>,
   now |-> 0]

NoPoster == [PosterAt(<< >>) EXCEPT !.pc = "off"]

\* kill-pod-redis-kafka.sh
KAFKA_INTERVAL == 300
REDIS_INTERVAL == 180
REDIS_OFFSET == 90

KAFKA_PODS ==
  << "mojaloop-kafka-mojaloop-kafka-nodepool-0",
     "mojaloop-kafka-mojaloop-kafka-nodepool-1",
     "mojaloop-kafka-mojaloop-kafka-nodepool-2" >>
REDIS_PODS ==
  << "mojaloop-redis-follower-0", "mojaloop-redis-leader-0",
     "mojaloop-redis-follower-1", "mojaloop-redis-leader-1",
     "mojaloop-redis-follower-2", "mojaloop-redis-leader-2" >>

\* the shell variables before the while loop; next is set in the loop
KillerAt(dryRun) ==
  [DRY_RUN |-> dryRun, pc |-> "loop", k |-> 0, r |-> 0,
   t_now |-> 0, t_kafka |-> 0, t_redis |-> REDIS_OFFSET, next |-> 0,
   deleted |-> << >>, iterations |-> 0]

NoKiller == [KillerAt(TRUE) EXCEPT !.pc = "off"]

NoIndices == [latency |-> -1, throughput |-> -1, checkColumns |-> << >>]

InitWith(i, m, cols, series, clean, events) ==
  /\ impl = i
  /\ BASELINE_METHOD = m
  /\ columns = cols
  /\ timeSeriesData = series
  /\ cleanRun = clean
  /\ podTerminations = events
  /\ pc = "start"
  /\ columnIndices = NoIndices
  /\ baselineWindow = Exit
  /\ baselineStats = NoStats
  /\ detrendResult = NoDetrend
  /\ baselineThroughputStdDev = Sqrt(Zero)
  /\ index = 0
  /\ results = << >>
  /\ locals = NoLocals
  /\ report = << >>

\* every series with the standard header and a short event log
InitSeries ==
  \E i \in Impls : \E m \in Methods(i) :
  \E series \in SeriesSet(MaxSamples) :
  \E events \in EventLogs(MaxSeriesEvents) :
    InitWith(i, m, HeaderFull, series, NoCleanRun, events)

\* every header, every clean run and every event log, with the probe series
InitHeaders ==
  \E i \in Impls : \E m \in Methods(i) :
  \E cols \in Headers :
  \E series \in ProbeSeries :
  \E events \in EventLogs(MaxEvents) :
  \E clean \in CleanRuns :
    /\ (clean.given => m = 0)
    /\ InitWith(i, m, cols, series, clean, events)

\* every content of two check-rate columns, with a short event log
InitChecks ==
  \E i \in Impls : \E m \in Methods(i) :
  \E series \in CheckSeries :
  \E events \in EventLogs(MaxSeriesEvents) :
    InitWith(i, m, HeaderChecks, series, NoCleanRun, events)

\* the spike series, with every event log
InitSpike ==
  \E i \in Impls : \E m \in Methods(i) :
  \E series \in SpikeSeries :
  \E events \in EventLogs(MaxSeriesEvents) :
    InitWith(i, m, HeaderFull, series, NoCleanRun, events)

Init == (InitSeries \/ InitHeaders \/ InitChecks \/ InitSpike) /\ call = NoCall /\ poster = NoPoster /\ killer = NoKiller

\* ------------------------------------------------------------------------
\* generateReport up to the forEach loop: load, locate the columns, route to
\* the method and run the method's code that precedes its loop
\* ------------------------------------------------------------------------
\* columns.findIndex(col => col.includes(...)), -1 when there is none
FindIndex(cols, names) ==
  IF \E i \in 1..Len(cols) : cols[i] \in names
  THEN (CHOOSE i \in 1..Len(cols) :
          cols[i] \in names /\ \A j \in 1..(i - 1) : cols[j] \notin names) - 1
  ELSE -1

\* indices of the known check columns present in the header, in list order
RECURSIVE CheckIndices(_, _)
CheckIndices(cols, names) ==
  IF names = << >> THEN << >>
  ELSE LET idx == FindIndex(cols, {Head(names)})
       IN  (IF idx # -1 THEN << idx >> ELSE << >>) \o CheckIndices(cols, Tail(names))

\* mutant: a series without a first row is tolerated
noFirstRow_tolerant(data) == FALSE

\* Object.keys(timeSeriesData[0]) throws a TypeError when there is no first row
noFirstRow(data) == Len(data) = 0


resolveColumns(cols) ==
  IF impl = "scripts"
  THEN [latency |-> 2, throughput |-> 3, checkColumns |-> << >>]
  ELSE [latency |-> FindIndex(cols, LatencyNames),
        throughput |-> FindIndex(cols, ThroughputNames),
        checkColumns |-> CheckIndices(cols, checkColumnNames)]

\* the run series must carry both columns (column-lookup revision only)
columnsMissing(ci) == impl = "lookup" /\ (ci.latency = -1 \/ ci.throughput = -1)

Halt(how) ==
  /\ pc' = how
  /\ UNCHANGED << columnIndices, baselineWindow, baselineStats, detrendResult,
                  baselineThroughputStdDev >>

\* case 0 of the switch
routeGlobal(ci) ==
  LET bCols == IF cleanRun.given THEN cleanRun.columns ELSE columns
      bData == IF cleanRun.given THEN cleanRun.rows ELSE timeSeriesData
      window == findBaselineWindowByTime(bData, bCols, OmitSeconds)
      bIdx == IF cleanRun.given THEN resolveColumns(bCols) ELSE ci
  IN  IF window.exit
      THEN Halt("exit")
      ELSE /\ pc' = "analyze"
           /\ columnIndices' = ci
           /\ baselineWindow' = window
           /\ baselineStats' = calculateBaselineStats(bData, bCols, window, bIdx)
           /\ UNCHANGED << detrendResult, baselineThroughputStdDev >>

generateReport ==
  /\ pc = "start"
  /\ UNCHANGED << inputs, index, results, locals, report >>
  /\ IF noFirstRow(timeSeriesData)
     THEN Halt("crash")
     ELSE LET ci == resolveColumns(columns)
          IN  IF columnsMissing(ci) THEN Halt("exit")
              ELSE IF BASELINE_METHOD = 0 THEN routeGlobal(ci)
              ELSE IF BASELINE_METHOD = 1
              THEN /\ pc' = "analyze"
                   /\ columnIndices' = ci
                   /\ baselineThroughputStdDev' =
                        IF impl = "lookup"
                        THEN stdDev(metricValues(timeSeriesData, columns, ci.throughput))
                        ELSE baselineThroughputStdDev
                   /\ UNCHANGED << baselineWindow, baselineStats, detrendResult >>
              ELSE /\ pc' = "analyze"
                   /\ columnIndices' = ci
                   /\ detrendResult' = detrendData(timeSeriesData, columns, ci)
                   /\ UNCHANGED << baselineWindow, baselineStats, baselineThroughputStdDev >>

\* ------------------------------------------------------------------------
\* One forEach callback of each analysis method
\* ------------------------------------------------------------------------
Step(record, loc) ==
  /\ results' = Append(results, record)
  /\ locals' = loc
  /\ index' = index + 1
  /\ UNCHANGED << inputs, pc, columnIndices, baselineWindow, baselineStats,
                  detrendResult, baselineThroughputStdDev, report >>

\* mutant: each termination's after-window mean becomes the baseline of the next
analyzeWithGlobalBaseline_rollingBaseline ==
  /\ pc = "analyze" /\ BASELINE_METHOD = 0 /\ index < Len(podTerminations)
  /\ LET termination == podTerminations[index + 1]
         terminationTime == parseTimestamp(termination.TerminationTime)
         metricsAfter == getMetricsAfterTermination(timeSeriesData, columns,
                           terminationTime, columnIndices, AfterWindowSeconds)
         after == afterData(timeSeriesData, columns, terminationTime, AfterWindowSeconds)
     IN  /\ results' = Append(results,
                               IF impl = "scripts"
                               THEN globalRecord(termination, metricsAfter, baselineStats)
                               ELSE globalRecordZ(termination, metricsAfter, baselineStats))
         /\ locals' = Locals(terminationTime, << >>, after, Null, metricsAfter)
         /\ index' = index + 1
         /\ baselineStats' =
              IF metricsAfter.isNull THEN baselineStats
              ELSE [baselineStats EXCEPT !.latency.mean = metricsAfter.latency.mean]
         /\ UNCHANGED << inputs, pc, columnIndices, baselineWindow, detrendResult,
                         baselineThroughputStdDev, report >>

analyzeWithGlobalBaseline ==
  /\ pc = "analyze" /\ BASELINE_METHOD = 0 /\ index < Len(podTerminations)
  /\ LET termination == podTerminations[index + 1]
         terminationTime == parseTimestamp(termination.TerminationTime)
         metricsAfter == getMetricsAfterTermination(timeSeriesData, columns,
                           terminationTime, columnIndices, AfterWindowSeconds)
         after == afterData(timeSeriesData, columns, terminationTime, AfterWindowSeconds)
     IN  Step(IF impl = "scripts"
              THEN globalRecord(termination, metricsAfter, baselineStats)
              ELSE globalRecordZ(termination, metricsAfter, baselineStats),
              Locals(terminationTime, << >>, after, Null, metricsAfter))

\* mutant: the "no data before" branch returns without pushing a record
analyzeWithLocalBaseline_dropNoData ==
  /\ pc = "analyze" /\ BASELINE_METHOD = 1 /\ index < Len(podTerminations)
  /\ LET termination == podTerminations[index + 1]
         terminationTime == parseTimestamp(termination.TerminationTime)
         metricsBefore == getMetricsBeforeTermination(timeSeriesData, columns,
                            terminationTime, columnIndices, BeforeWindowSeconds)
         metricsAfter == getMetricsAfterTermination(timeSeriesData, columns,
                           terminationTime, columnIndices, AfterWindowSeconds)
         before == beforeData(timeSeriesData, columns, terminationTime, BeforeWindowSeconds)
         after == afterData(timeSeriesData, columns, terminationTime, AfterWindowSeconds)
     IN  IF metricsBefore.isNull
         THEN /\ index' = index + 1
              /\ locals' = Locals(terminationTime, before, after, metricsBefore, metricsAfter)
              /\ UNCHANGED << inputs, pc, columnIndices, baselineWindow, baselineStats,
                              detrendResult, baselineThroughputStdDev, report, results >>
         ELSE Step(localRecord(termination, metricsBefore, metricsAfter),
                   Locals(terminationTime, before, after, metricsBefore, metricsAfter))


analyzeWithLocalBaseline ==
  /\ pc = "analyze" /\ BASELINE_METHOD = 1 /\ index < Len(podTerminations)
  /\ LET termination == podTerminations[index + 1]
         terminationTime == parseTimestamp(termination.TerminationTime)
         metricsBefore == getMetricsBeforeTermination(timeSeriesData, columns,
                            terminationTime, columnIndices, BeforeWindowSeconds)
         metricsAfter == getMetricsAfterTermination(timeSeriesData, columns,
                           terminationTime, columnIndices, AfterWindowSeconds)
         before == beforeData(timeSeriesData, columns, terminationTime, BeforeWindowSeconds)
         after == afterData(timeSeriesData, columns, terminationTime, AfterWindowSeconds)
     IN  Step(IF impl = "scripts"
              THEN localRecord(termination, metricsBefore, metricsAfter)
              ELSE localRecordZ(termination, metricsBefore, metricsAfter,
                                baselineThroughputStdDev),
              Locals(terminationTime, before, after, metricsBefore, metricsAfter))

analyzeWithDetrending ==
  /\ pc = "analyze" /\ BASELINE_METHOD = 2 /\ index < Len(podTerminations)
  /\ LET termination == podTerminations[index + 1]
         terminationTime == parseTimestamp(termination.TerminationTime)
         beforeSamples == detrendedBefore(detrendResult.data, columns, terminationTime,
                                          BeforeWindowSeconds)
         afterSamples == detrendedAfter(detrendResult.data, columns, terminationTime,
                                        AfterWindowSeconds)
     IN  Step(detrendedRecord(termination, beforeSamples, afterSamples, columns),
              Locals(terminationTime, beforeSamples, afterSamples, Null, Null))

\* ------------------------------------------------------------------------
\* generateReport after the loop: Object.keys(results[0]) throws a TypeError
\* for an empty results array, otherwise the rows are written
\* ------------------------------------------------------------------------
writeReport ==
  /\ pc = "analyze" /\ index = Len(podTerminations)
  /\ IF Len(results) = 0
     THEN pc' = "crash" /\ report' = report
     ELSE pc' = "written" /\ report' = results
  /\ UNCHANGED << inputs, columnIndices, baselineWindow, baselineStats, detrendResult,
                  baselineThroughputStdDev, index, results, locals >>

Next ==
  \/ generateReport
  \/ analyzeWithGlobalBaseline
  \/ analyzeWithLocalBaseline
  \/ analyzeWithDetrending
  \/ writeReport

Spec == Init /\ [][Next]_vars

\* ========================================================================
\* The numeric helpers applied on their own.  A call holds the function's
\* name and arguments; its action applies the function as the callbacks do.
\* ========================================================================
Pending(fn, argSet) ==
  { [fn |-> fn, args |-> a, done |-> FALSE, out |-> << >>] : a \in argSet }

Done(out) == call' = [call EXCEPT !.done = TRUE, !.out = out]

Idle == UNCHANGED << impl, BASELINE_METHOD, columns, timeSeriesData, cleanRun,
                     podTerminations, pc, columnIndices, baselineWindow, baselineStats,
                     detrendResult, baselineThroughputStdDev, index, results, locals,
                     report, poster, killer >>

\* means of a window and of a baseline, and baseline variances
MeanValues == { Int2Num(0), Int2Num(50), Int2Num(60), Int2Num(100), Int2Num(229),
                Rat(101, 2), Int2Num(-20) }
BaselineMeans == { Int2Num(0), Int2Num(50), Int2Num(100), Rat(101, 2), Int2Num(-40) }
BaselineStdDevs == { Sqrt(Zero), Sqrt(Int2Num(2500)), Sqrt(Rat(1, 4)), Sqrt(Int2Num(100)) }

ZScoreCalls ==
  Pending("calculateZScore", MeanValues \X BaselineMeans \X BaselineStdDevs)
PercentageCalls ==
  Pending("calculatePercentageChange", MeanValues \X BaselineMeans)

\* throughputZScore and throughputSignificance of a record
applyCalculateZScore ==
  /\ call.fn = "calculateZScore" /\ ~call.done
  /\ LET zScore == calculateZScore(call.args[1], call.args[2], call.args[3])
     IN  Done([z |-> zScore, label |-> assessSignificanceByZScore(zScore)])
  /\ Idle

\* latencyChange of a record
applyCalculatePercentageChange ==
  /\ call.fn = "calculatePercentageChange" /\ ~call.done
  /\ Done(calculatePercentageChange(call.args[1], call.args[2]))
  /\ Idle

\* deviations on and around the thresholds of each scale, with both signs
Mirror(S) == S \cup { Neg(x) : x \in S }
PercentDeviations ==
  Mirror({ Zero, Int2Num(2), Rat(201, 100), Int2Num(3), Int2Num(5), Rat(501, 100),
           Int2Num(7), Int2Num(10), Rat(1001, 100), Int2Num(400) })
ZDeviations ==
  Mirror({ Zero, Int2Num(1), Rat(128, 100), Rat(129, 100), Rat(196, 100), Rat(197, 100),
           Rat(258, 100), Rat(259, 100), Int2Num(5) })

\* the z-score record of the number r
ZOf(r) == [sgn |-> IF r.n > 0 THEN 1 ELSE IF r.n < 0 THEN -1 ELSE 0, sq |-> Mul(r, r)]

SignificanceCalls ==
  Pending("assessSignificance", PercentDeviations \X PercentDeviations)
ZSignificanceCalls ==
  Pending("assessSignificanceByZScore", ZDeviations \X ZDeviations)

\* latencySignificance of two records
applyAssessSignificance ==
  /\ call.fn = "assessSignificance" /\ ~call.done
  /\ Done(<< assessSignificance(call.args[1]), assessSignificance(call.args[2]) >>)
  /\ Idle

\* throughputSignificance of two records
applyAssessSignificanceByZScore ==
  /\ call.fn = "assessSignificanceByZScore" /\ ~call.done
  /\ Done(<< assessSignificanceByZScore(ZOf(call.args[1])),
             assessSignificanceByZScore(ZOf(call.args[2])) >>)
  /\ Idle

\* "Termination Time" texts: epoch seconds, epoch milliseconds, values on
\* and around 10^12, seconds with a fraction, a date, and text that is neither
Tokens ==
  { NumToken(0), NumToken(90), DecimalToken(1700, 0, 0), DecimalToken(999999, 999999, 0),
    DecimalToken(1000000, 0, 0), DecimalToken(1000000, 1, 0), DecimalToken(1700000, 5, 0),
    DecimalToken(0, 90, 500), DecimalToken(1000000, 0, 500),
    DateToken(105000), JunkToken }

TimestampCalls == Pending("parseTimestamp", { << t >> : t \in Tokens })

\* terminationTime of a callback
applyParseTimestamp ==
  /\ call.fn = "parseTimestamp" /\ ~call.done
  /\ Done(parseTimestamp(call.args[1]))
  /\ Idle

\* series sampled every second: a latency step from 100 to 500 between 2 s
\* and 3 s, a flat one, and the step with an excluded sample on each side
SecondsSeries ==
  { [rows |-> << MakeRow(0, KindA), MakeRow(1000, KindA), MakeRow(2000, KindA),
                 MakeRow(3000, KindB), MakeRow(4000, KindB) >>],
    [rows |-> << MakeRow(0, KindA), MakeRow(1000, KindA), MakeRow(2000, KindA),
                 MakeRow(3000, KindA), MakeRow(4000, KindA) >>],
    [rows |-> << MakeRow(0, KindA), MakeRow(1000, KindC), MakeRow(2000, KindA),
                 MakeRow(3000, KindD), MakeRow(4000, KindB) >>] }

\* a termination 2.5 s into the series (a date text), one at 3 s, and the
\* text "2500", which is read as epoch seconds
SecondsEvents ==
  { [Pod |-> "kafka-0", TerminationTime |-> DateToken(2500), Status |-> "DELETED"],
    [Pod |-> "redis-0", TerminationTime |-> DateToken(3000), Status |-> "DELETED"],
    [Pod |-> "kafka-1", TerminationTime |-> NumToken(2500), Status |-> "DELETED"] }

\* beforeWindowSeconds, afterWindowSeconds
WindowPairs == { << 3, 2 >>, << 1, 1 >>, << 30, 30 >> }

LocalBaselineCalls ==
  Pending("analyzeWithLocalBaseline",
          { << s, ev, w[1], w[2] >> : s \in SecondsSeries, ev \in SecondsEvents,
                                      w \in WindowPairs })

\* one forEach callback of analyzeWithLocalBaseline (statistical-analysis.js)
\* with the window lengths it was called with
applyAnalyzeWithLocalBaseline ==
  /\ call.fn = "analyzeWithLocalBaseline" /\ ~call.done
  /\ LET series == call.args[1].rows
         termination == call.args[2]
         terminationTime == parseTimestamp(termination.TerminationTime)
         indices == resolveColumns(HeaderFull)
         metricsBefore == getMetricsBeforeTermination(series, HeaderFull, terminationTime,
                                                      indices, call.args[3])
         metricsAfter == getMetricsAfterTermination(series, HeaderFull, terminationTime,
                                                    indices, call.args[4])
     IN  Done(localRecord(termination, metricsBefore, metricsAfter))
  /\ Idle

\* ------------------------------------------------------------------------
\* mergeData (merge-terminations.js, the script part of
\* kill-pod-redis-kafka.sh): k6-time-series.csv and pod-terminations.csv
\* merged into merged-time-series.csv
\* ------------------------------------------------------------------------
\* a JS number held in a row object, and the text `${podName} killed`
NumberValue(v) == [txt |-> "number", v |-> v]
KilledCell(podName) == [txt |-> podName \o " killed", v |-> Zero]

\* allData before the sort: the metric rows, then the termination rows
mergeEntries(series, headers, terminations) ==
  LET newHeaders == headers \o << "Pod Termination" >>
      metric(row) ==
        [timestamp |-> parseInt(Field(row, headers, headers[1])),
         type |-> "metric",
         data |-> [p \in 1..Len(newHeaders) |->
                     IF p = Len(newHeaders) THEN BlankCell
                     ELSE Field(row, headers, headers[p])]]
      termination(t) ==
        LET timestamp == parseTimestamp(t.TerminationTime)
        IN  [timestamp |-> timestamp,
             type |-> "termination",
             data |-> [p \in 1..Len(newHeaders) |->
                         IF p = 1 THEN NumberValue(timestamp)
                         ELSE IF p = Len(newHeaders) THEN KilledCell(t.Pod)
                         ELSE BlankCell]]
  IN  [i \in 1..Len(series) |-> metric(series[i])]
        \o [i \in 1..Len(terminations) |-> termination(terminations[i])]

\* Array.prototype.sort with (a, b) => a.timestamp - b.timestamp: a stable
\* sort when every timestamp is a number
RECURSIVE sortByTimestamp(_)
sortByTimestamp(allData) ==
  IF allData = << >> THEN << >>
  ELSE LET n == Len(allData)
           e == allData[n]
           sorted == sortByTimestamp(SubSeq(allData, 1, n - 1))
           k == Cardinality({ i \in 1..Len(sorted) :
                              Le(sorted[i].timestamp, e.timestamp) })
       IN  SubSeq(sorted, 1, k) \o << e >> \o SubSeq(sorted, k + 1, Len(sorted))

\* with a NaN timestamp the comparator is not consistent and the order of
\* the result is implementation-defined: any order of the entries
sortOutcomes(allData) ==
  IF \E i \in 1..Len(allData) : IsNaN(allData[i].timestamp)
  THEN { [i \in 1..Len(allData) |-> allData[p[i]]] : p \in Permutations(1..Len(allData)) }
  ELSE { sortByTimestamp(allData) }

\* row[header] || '' as written to the file: an undefined cell, the number 0
\* and the number NaN are written as the empty text
writtenValue(value) ==
  IF value.txt = "undefined" THEN BlankCell
  ELSE IF value.txt = "number"
       THEN IF IsNaN(value.v) \/ value.v = Zero THEN BlankCell
            ELSE [txt |-> "num", v |-> value.v]
       ELSE value

\* the lines of merged-time-series.csv below the header line
csvLines(allData) ==
  [i \in 1..Len(allData) |->
     [p \in 1..Len(allData[i].data) |-> writtenValue(allData[i].data[p])]]

\* k6 rows in and out of time order, with equal times, at the times of the
\* terminations and away from them
MergeRows ==
  { MakeRow(60000, KindC), MakeRow(90000, KindA), MakeRow(105000, KindB) }

MergeSeries == UNION { [1..n -> MergeRows] : n \in 0..2 }

\* terminations at the time of a k6 row (as seconds, as a date), between two
\* rows, at the epoch, and with a time that cannot be read
MergeEventPool ==
  { [Pod |-> "kafka-0", TerminationTime |-> NumToken(90), Status |-> "DELETED"],
    [Pod |-> "redis-0", TerminationTime |-> DateToken(105000), Status |-> "DRY_RUN"],
    [Pod |-> "redis-1", TerminationTime |-> DateToken(75000), Status |-> "DELETED"],
    [Pod |-> "kafka-2", TerminationTime |-> NumToken(0), Status |-> "DELETED"],
    [Pod |-> "kafka-1", TerminationTime |-> JunkToken, Status |-> "DELETE_ERROR"] }

MergeEventLogs(maxLen) == UNION { [1..n -> MergeEventPool] : n \in 0..maxLen }

MergeCalls ==
  Pending("mergeData",
          { << [rows |-> rows], [events |-> events] >> :
              rows \in MergeSeries, events \in MergeEventLogs(MaxMergeEvents) })

applyMergeData ==
  /\ call.fn = "mergeData" /\ ~call.done
  /\ \E allData \in sortOutcomes(mergeEntries(call.args[1].rows, HeaderFull,
                                               call.args[2].events)) :
       Done(csvLines(allData))
  /\ Idle

Calls == ZScoreCalls \cup PercentageCalls \cup SignificanceCalls \cup ZSignificanceCalls
           \cup TimestampCalls \cup LocalBaselineCalls \cup MergeCalls

InitFn ==
  /\ InitWith("scripts", 1, HeaderFull, << >>, NoCleanRun, << >>)
  /\ call \in Calls
  /\ poster = NoPoster
  /\ killer = NoKiller

NextFn ==
  \/ applyCalculateZScore
  \/ applyCalculatePercentageChange
  \/ applyAssessSignificance
  \/ applyAssessSignificanceByZScore
  \/ applyParseTimestamp
  \/ applyAnalyzeWithLocalBaseline
  \/ applyMergeData

SpecFn == InitFn /\ [][NextFn]_vars

\* ========================================================================
\* create-grafana-annotations.js: one annotation request per termination row
\* ========================================================================
\* setTimeout(resolve, 100)
DelayMs == 100

\* rows of pod-terminations.csv: epoch milliseconds, seconds with a fraction
\* and text that is no number
PosterPool ==
  { [Pod |-> "kafka-0", TerminationTime |-> DecimalToken(1704067, 200000, 0)],
    [Pod |-> "redis-0", TerminationTime |-> DecimalToken(0, 90, 500)],
    [Pod |-> "kafka-1", TerminationTime |-> JunkToken] }

PosterLogs(maxLen) == UNION { [1..n -> PosterPool] : n \in 0..maxLen }

\* how a fetch settles: a 2xx response, another status, or a rejected promise
FetchOutcomes == {"ok", "httpError", "networkError"}
\* milliseconds a request takes, and by how much a timer fires late
Latencies == {0, 250}
Lateness == {0, 5}

\* payload.time = parseInt(time): the integer part of a numeric text, NaN
\* for text that is no number
PayloadTime(token) ==
  IF token.txt = "num" THEN Limbs(token.hi, token.lo) ELSE NaN

AnalysisIdle ==
  UNCHANGED << impl, BASELINE_METHOD, columns, timeSeriesData, cleanRun, podTerminations,
               pc, columnIndices, baselineWindow, baselineStats, detrendResult,
               baselineThroughputStdDev, index, results, locals, report, call,
               killer >>

\* main's loop test is true: createAnnotation builds the payload and calls fetch
createAnnotation ==
  /\ poster.pc = "loop" /\ poster.i < Len(poster.podTerminations)
  /\ LET termination == poster.podTerminations[poster.i + 1]
     IN  poster' = [poster EXCEPT
           !.pc = "fetch",
           !.requests = Append(@, [time |-> PayloadTime(termination.TerminationTime),
                                   text |-> termination.Pod]),
           !.sentAt = Append(@, poster.now)]
  /\ AnalysisIdle

\* mutant: a failed request ends the loop
fetchSettled_stopOnFailure ==
  /\ poster.pc = "fetch"
  /\ \E outcome \in FetchOutcomes : \E latency \in Latencies :
       poster' = [poster EXCEPT
         !.pc = IF outcome = "ok" THEN "delay" ELSE "done",
         !.outcomes = Append(@, outcome),
         !.settledAt = Append(@, poster.now + latency),
         !.now = @ + latency,
         !.successCount = IF outcome = "ok" THEN @ + 1 ELSE @,
         !.failureCount = IF outcome = "ok" THEN @ ELSE @ + 1]
  /\ AnalysisIdle

\* the fetch settles, createAnnotation returns { success }, main counts it
\* and starts the 100 ms timer
fetchSettled ==
  /\ poster.pc = "fetch"
  /\ \E outcome \in FetchOutcomes : \E latency \in Latencies :
       poster' = [poster EXCEPT
         !.pc = "delay",
         !.outcomes = Append(@, outcome),
         !.settledAt = Append(@, poster.now + latency),
         !.now = @ + latency,
         !.successCount = IF outcome = "ok" THEN @ + 1 ELSE @,
         !.failureCount = IF outcome = "ok" THEN @ ELSE @ + 1]
  /\ AnalysisIdle

\* the timer fires and the loop goes to the next row
delayElapsed ==
  /\ poster.pc = "delay"
  /\ \E late \in Lateness :
       poster' = [poster EXCEPT !.pc = "loop", !.i = @ + 1, !.now = @ + DelayMs + late]
  /\ AnalysisIdle

\* the loop test is false: the summary is printed
printSummary ==
  /\ poster.pc = "loop" /\ poster.i = Len(poster.podTerminations)
  /\ poster' = [poster EXCEPT !.pc = "done"]
  /\ AnalysisIdle

InitPoster ==
  /\ InitWith("scripts", 1, HeaderFull, << >>, NoCleanRun, << >>)
  /\ call = NoCall
  /\ killer = NoKiller
  /\ \E rows \in PosterLogs(MaxRows) : poster = PosterAt(rows)

NextPoster ==
  \/ createAnnotation
  \/ fetchSettled
  \/ delayElapsed
  \/ printSummary

SpecPoster == InitPoster /\ [][NextPoster]_vars

\* ========================================================================
\* kill-pod-redis-kafka.sh: the scheduling loop
\* ========================================================================
\* what delete_pod does with a pod: log only (dry run), or kubectl delete,
\* whose failure is swallowed by "|| true"
DeleteOutcomes(dryRun) == IF dryRun THEN {"dryRun"} ELSE {"deleted", "failed"}

Deletion(group, pod, at, outcome) ==
  [group |-> group, pod |-> pod, at |-> at, outcome |-> outcome]

OthersIdle ==
  UNCHANGED << impl, BASELINE_METHOD, columns, timeSeriesData, cleanRun, podTerminations,
               pc, columnIndices, baselineWindow, baselineStats, detrendResult,
               baselineThroughputStdDev, index, results, locals, report, call,
               poster >>

\* the loop test is true: next is the earliest pending due time, and the
\* script sleeps until then
sleepUntilNext ==
  /\ killer.pc = "loop"
  /\ (killer.k < Len(KAFKA_PODS) \/ killer.r < Len(REDIS_PODS))
  /\ LET first == 1073741824
         afterKafka == IF killer.k < Len(KAFKA_PODS) /\ killer.t_kafka < first
                       THEN killer.t_kafka ELSE first
         afterRedis == IF killer.r < Len(REDIS_PODS) /\ killer.t_redis < afterKafka
                       THEN killer.t_redis ELSE afterKafka
     IN  killer' = [killer EXCEPT !.pc = "sleep", !.next = afterRedis]
  /\ OthersIdle

\* mutant: a failed deletion is tried again at the group's next due time
deleteDue_retryFailed ==
  /\ killer.pc = "sleep"
  /\ \E ko \in DeleteOutcomes(killer.DRY_RUN) : \E ro \in DeleteOutcomes(killer.DRY_RUN) :
       LET t == killer.next
           kafkaDue == killer.k < Len(KAFKA_PODS) /\ t = killer.t_kafka
           redisDue == killer.r < Len(REDIS_PODS) /\ t = killer.t_redis
       IN  /\ (~kafkaDue => ko = CHOOSE o \in DeleteOutcomes(killer.DRY_RUN) : TRUE)
           /\ (~redisDue => ro = CHOOSE o \in DeleteOutcomes(killer.DRY_RUN) : TRUE)
           /\ killer' = [killer EXCEPT
                 !.pc = "loop",
                 !.t_now = t,
                 !.iterations = @ + 1,
                 !.k = IF kafkaDue /\ ko # "failed" THEN @ + 1 ELSE @,
                 !.t_kafka = IF kafkaDue THEN @ + KAFKA_INTERVAL ELSE @,
                 !.r = IF redisDue /\ ro # "failed" THEN @ + 1 ELSE @,
                 !.t_redis = IF redisDue THEN @ + REDIS_INTERVAL ELSE @,
                 !.deleted =
                   @ \o (IF kafkaDue
                         THEN << Deletion("kafka", KAFKA_PODS[killer.k + 1], t, ko) >>
                         ELSE << >>)
                     \o (IF redisDue
                         THEN << Deletion("redis", REDIS_PODS[killer.r + 1], t, ro) >>
                         ELSE << >>)]
  /\ OthersIdle

\* the sleep is over: t_now = next, then the Kafka pod if its time has come,
\* then the Redis pod if its time has come
deleteDue ==
  /\ killer.pc = "sleep"
  /\ \E ko \in DeleteOutcomes(killer.DRY_RUN) : \E ro \in DeleteOutcomes(killer.DRY_RUN) :
       LET t == killer.next
           kafkaDue == killer.k < Len(KAFKA_PODS) /\ t = killer.t_kafka
           redisDue == killer.r < Len(REDIS_PODS) /\ t = killer.t_redis
       IN  /\ (~kafkaDue => ko = CHOOSE o \in DeleteOutcomes(killer.DRY_RUN) : TRUE)
           /\ (~redisDue => ro = CHOOSE o \in DeleteOutcomes(killer.DRY_RUN) : TRUE)
           /\ killer' = [killer EXCEPT
                 !.pc = "loop",
                 !.t_now = t,
                 !.iterations = @ + 1,
                 !.k = IF kafkaDue THEN @ + 1 ELSE @,
                 !.t_kafka = IF kafkaDue THEN @ + KAFKA_INTERVAL ELSE @,
                 !.r = IF redisDue THEN @ + 1 ELSE @,
                 !.t_redis = IF redisDue THEN @ + REDIS_INTERVAL ELSE @,
                 !.deleted =
                   @ \o (IF kafkaDue
                         THEN << Deletion("kafka", KAFKA_PODS[killer.k + 1], t, ko) >>
                         ELSE << >>)
                     \o (IF redisDue
                         THEN << Deletion("redis", REDIS_PODS[killer.r + 1], t, ro) >>
                         ELSE << >>)]
  /\ OthersIdle

\* the loop test is false: "All done."
allDone ==
  /\ killer.pc = "loop"
  /\ ~(killer.k < Len(KAFKA_PODS) \/ killer.r < Len(REDIS_PODS))
  /\ killer' = [killer EXCEPT !.pc = "done"]
  /\ OthersIdle

InitKiller ==
  /\ InitWith("scripts", 1, HeaderFull, << >>, NoCleanRun, << >>)
  /\ call = NoCall
  /\ poster = NoPoster
  /\ \E dryRun \in BOOLEAN : killer = KillerAt(dryRun)

NextKiller ==
  \/ sleepUntilNext
  \/ deleteDue
  \/ allDone

\* sleep returns and kubectl returns: the script always takes its next step
SpecKiller == InitKiller /\ [][NextKiller]_vars /\ WF_vars(NextKiller)

\* ========================================================================
\* Properties
\* ========================================================================
\* The expected values below are computed from the raw cells with integer
\* arithmetic, not through the operators that model the code.

\* the Time cell of a row, in ms
RawMs(row) == row[1].v.n

\* the instant of a termination in ms, when its token denotes one
EvOk(ev) == ev.TerminationTime.txt \in {"num", "date"}
EvMs(ev) ==
  IF ev.TerminationTime.txt = "num"
  THEN (ev.TerminationTime.hi * 1000000 + ev.TerminationTime.lo) * 1000
  ELSE ev.TerminationTime.ms

\* { s : t - w*1000 <= s.timestamp < t } and { s : t < s.timestamp <= t + w*1000 }
ExpectedBefore(ev) ==
  LET In(row) == /\ EvOk(ev)
                 /\ EvMs(ev) - BeforeWindowSeconds * 1000 <= RawMs(row)
                 /\ RawMs(row) < EvMs(ev)
  IN  SelectSeq(timeSeriesData, In)

ExpectedAfter(ev) ==
  LET In(row) == /\ EvOk(ev)
                 /\ EvMs(ev) < RawMs(row)
                 /\ RawMs(row) <= EvMs(ev) + AfterWindowSeconds * 1000
  IN  SelectSeq(timeSeriesData, In)

\* 1-based position of a tracked column in a header, 0 when the revision finds none
MetricPos(cols, metric) ==
  IF impl = "scripts" THEN (IF metric = "latency" THEN 3 ELSE 4)
  ELSE LET names == IF metric = "latency" THEN LatencyNames ELSE ThroughputNames
           hits == { p \in 1..Len(cols) : cols[p] \in names }
       IN  IF hits = {} THEN 0 ELSE SetMin(hits)

\* the numeric, strictly positive cells of a column, in row order
RawIncluded(rows, pos) ==
  LET Ok(row) == pos >= 1 /\ pos <= Len(row) /\ row[pos].txt = "num" /\ row[pos].v.n > 0
      kept == SelectSeq(rows, Ok)
  IN  [i \in 1..Len(kept) |-> kept[i][pos].v]

\* the rows held by a slice (method 2 slices the detrended rows)
RowsOf(samples) ==
  IF BASELINE_METHOD = 2 THEN [i \in 1..Len(samples) |-> samples[i].row] ELSE samples

\* the termination the last callback worked on
LastEvent == podTerminations[index]

IsNA(field) == field.txt = "N/A"

\* the after-window fields of a record are all 'N/A'
AfterFieldsNA(r) ==
  /\ r.LatencyChange.txt = "N/A"
  /\ r.LatencySignificance = "N/A"
  /\ r.ThroughputSignificance = "N/A"
  /\ IF BASELINE_METHOD = 2
     THEN /\ IsNA(r.AfterDetrendedLatency) /\ IsNA(r.AfterDetrendedThroughput)
          /\ IsNA(r.ThroughputChange) /\ r.FailuresDetected = "N/A"
     ELSE /\ IsNA(r.AfterLatencyMean) /\ IsNA(r.AfterThroughputMean)
          /\ IF impl = "scripts"
             THEN IsNA(r.ThroughputChange) /\ r.FailuresDetected = "N/A"
             ELSE IsNA(r.LatencyZScore) /\ IsNA(r.ThroughputZScore) /\ IsNA(r.SuccessRate)

\* the before-window means of a record are reported (not 'N/A')
BeforeReported(r) ==
  IF BASELINE_METHOD = 2
  THEN ~IsNA(r.BeforeDetrendedLatency) /\ ~IsNA(r.BeforeDetrendedThroughput)
  ELSE ~IsNA(r.BeforeLatencyMean) /\ ~IsNA(r.BeforeThroughputMean)

BeforeNA(r) ==
  IF BASELINE_METHOD = 2
  THEN IsNA(r.BeforeDetrendedLatency) /\ IsNA(r.BeforeDetrendedThroughput)
  ELSE IsNA(r.BeforeLatencyMean) /\ IsNA(r.BeforeThroughputMean)

\* a record with every statistic present
FullRecord(r) ==
  /\ BeforeReported(r)
  /\ r.LatencySignificance # "N/A" /\ r.ThroughputSignificance # "N/A"
  /\ ~IsNA(r.LatencyChange)

LatPos == MetricPos(columns, "latency")
ThrPos == MetricPos(columns, "throughput")

\* C1: under every strategy the results hold one record per processed
\* termination, the i-th carrying the Pod, Termination Time and Status of the
\* i-th termination, whatever its windows hold; once the loop is over there
\* are as many records as terminations and those are the rows written.
C1_OneRecordPerEvent ==
  /\ Len(results) = index
  /\ index <= Len(podTerminations)
  /\ \A i \in 1..Len(results) :
       /\ results[i].Pod = podTerminations[i].Pod
       /\ results[i].TerminationTime = podTerminations[i].TerminationTime
       /\ results[i].Status = podTerminations[i].Status
  /\ (pc = "written" => Len(results) = Len(podTerminations) /\ report = results)

C1_Witness ==
  /\ pc = "written"
  /\ Len(results) = 3
  /\ results[1].LatencySignificance # "N/A"
  /\ results[3].LatencySignificance = "N/A"
  /\ Len(ExpectedAfter(podTerminations[3])) = 0

\* the scenario of the local strategy: three terminations written, the
\* first two with included latency values on both sides, the third with
\* some before it and no sample after it
ThirdLacksAfter ==
  /\ BASELINE_METHOD = 1
  /\ pc = "written"
  /\ Len(podTerminations) = 3
  /\ Len(ExpectedAfter(podTerminations[3])) = 0
  /\ Len(RawIncluded(ExpectedBefore(podTerminations[3]), LatPos)) > 0
  /\ \A i \in 1..2 :
       /\ Len(RawIncluded(ExpectedBefore(podTerminations[i]), LatPos)) > 0
       /\ Len(RawIncluded(ExpectedAfter(podTerminations[i]), LatPos)) > 0

\* C2 (as claimed): a termination with an empty after-window and a non-empty
\* before-window gets a record with 'N/A' in every after-window field that
\* still reports the before-window statistics.
C2_BeforeStillReported ==
  \A i \in 1..Len(results) :
    (/\ BASELINE_METHOD \in {1, 2}
     /\ Len(ExpectedAfter(podTerminations[i])) = 0
     /\ Len(ExpectedBefore(podTerminations[i])) > 0)
    => AfterFieldsNA(results[i]) /\ BeforeReported(results[i])

\* C2 (amended): such a record has 'N/A' in every after-window field; the
\* local strategy reports the before-window means exactly when the
\* before-window holds an included latency value, the detrended strategy
\* reports 'N/A' for them and keeps the before sample count; equal
\* terminations get equal records wherever they stand in the log; with three
\* terminations of which only the third lacks samples after it, rows 1-2 are
\* full, row 3 is 'N/A' after the event and three rows are written.
C2_NoDataAfterRecord ==
  /\ \A i \in 1..Len(results) :
       (/\ BASELINE_METHOD \in {1, 2}
        /\ Len(ExpectedAfter(podTerminations[i])) = 0
        /\ Len(ExpectedBefore(podTerminations[i])) > 0)
       => /\ AfterFieldsNA(results[i])
          /\ IF BASELINE_METHOD = 2
             THEN /\ BeforeNA(results[i])
                  /\ results[i].SamplesBefore = Len(ExpectedBefore(podTerminations[i]))
             ELSE LET n == Len(RawIncluded(ExpectedBefore(podTerminations[i]), LatPos))
                  IN  /\ results[i].SamplesBefore = n
                      /\ (n > 0 => BeforeReported(results[i]))
                      /\ (n = 0 => BeforeNA(results[i]))
  /\ \A i, j \in 1..Len(results) :
       podTerminations[i] = podTerminations[j] => results[i] = results[j]
  /\ ThirdLacksAfter
       => /\ Len(report) = 3
          /\ FullRecord(report[1]) /\ FullRecord(report[2])
          /\ AfterFieldsNA(report[3]) /\ BeforeReported(report[3])

C2_Witness ==
  /\ ThirdLacksAfter
  /\ IsNA(report[3].AfterLatencyMean)
  /\ ~IsNA(report[3].BeforeLatencyMean)

\* C3: for the termination just analysed, the before slice is exactly the
\* rows with t - w*1000 <= Time < t and the after slice exactly the rows with
\* t < Time <= t + w*1000, in series order; the detrended strategy slices its
\* rows by the same bounds.
C3_WindowBounds ==
  (locals.valid /\ EvOk(LastEvent))
  => /\ RowsOf(locals.afterSamples) = ExpectedAfter(LastEvent)
     /\ (BASELINE_METHOD # 0 => RowsOf(locals.beforeSamples) = ExpectedBefore(LastEvent))

C3_Witness ==
  /\ locals.valid /\ EvOk(LastEvent)
  /\ BASELINE_METHOD = 2
  /\ Len(locals.beforeSamples) = 2
  /\ Len(locals.afterSamples) = 2
  /\ Len(timeSeriesData) = 4
  /\ RawMs(locals.beforeSamples[1].row) = EvMs(LastEvent) - BeforeWindowSeconds * 1000
  /\ RawMs(locals.afterSamples[2].row) = EvMs(LastEvent) + AfterWindowSeconds * 1000

\* C4: neither slice of the termination just analysed holds a row whose time
\* is the termination instant, and no row is in both slices.
C4_EventInstantExcluded ==
  (locals.valid /\ EvOk(LastEvent))
  => LET before == RowsOf(locals.beforeSamples)
         after == RowsOf(locals.afterSamples)
     IN  /\ \A i \in 1..Len(before) : RawMs(before[i]) # EvMs(LastEvent)
         /\ \A i \in 1..Len(after) : RawMs(after[i]) # EvMs(LastEvent)
         /\ \A i \in 1..Len(before) : \A j \in 1..Len(after) : before[i] # after[j]

C4_Witness ==
  /\ locals.valid /\ EvOk(LastEvent)
  /\ BASELINE_METHOD = 1
  /\ \E i \in 1..Len(timeSeriesData) : RawMs(timeSeriesData[i]) = EvMs(LastEvent)
  /\ Len(locals.beforeSamples) > 0
  /\ Len(locals.afterSamples) > 0

\* the series the global baseline is taken from, and its header
BaseRows == IF cleanRun.given THEN cleanRun.rows ELSE timeSeriesData
BaseCols == IF cleanRun.given THEN cleanRun.columns ELSE columns

\* [firstTimestamp + omitSeconds*1000, lastTimestamp - omitSeconds*1000]
TrimStart == RawMs(BaseRows[1]) + OmitSeconds * 1000
TrimEnd == RawMs(BaseRows[Len(BaseRows)]) - OmitSeconds * 1000

ExpectedBaselineRows ==
  LET In(row) == TrimStart <= RawMs(row) /\ RawMs(row) <= TrimEnd
  IN  IF Len(BaseRows) = 0 THEN << >> ELSE SelectSeq(BaseRows, In)

RECURSIVE SumInts(_)
SumInts(vals) == IF vals = << >> THEN 0 ELSE Head(vals).n + SumInts(Tail(vals))

\* sum of (v*q - p)^2 over integer values v, for the mean p/q
RECURSIVE SumSqDev(_, _, _)
SumSqDev(vals, p, q) ==
  IF vals = << >> THEN 0
  ELSE (Head(vals).n * q - p) * (Head(vals).n * q - p) + SumSqDev(Tail(vals), p, q)

\* count and mean of a statistic are those of the integer values vals
MeanOf(stat, vals) ==
  /\ stat.count = Len(vals)
  /\ IF Len(vals) = 0 THEN stat.mean = Zero
     ELSE stat.mean.k = "num" /\ stat.mean.n * Len(vals) = SumInts(vals) * stat.mean.d

\* stdDev is the root of sum((v - mean)^2) / n : with mean p/q and
\* stdDev^2 = a/b,  b * sum((v*q - p)^2) = n * a * q^2
PopulationStdDevOf(stat, vals) ==
  IF Len(vals) = 0 THEN stat.stdDev.n = 0
  ELSE stat.stdDev.d * SumSqDev(vals, stat.mean.n, stat.mean.d)
         = Len(vals) * stat.stdDev.n * stat.mean.d * stat.mean.d

Halted == pc \in {"exit", "crash"}
NothingProduced == index = 0 /\ results = << >> /\ report = << >>

\* C5: under the global strategy the baseline window is
\* [first + 60 s, last - 60 s] of the baseline series and the baseline
\* statistics are those of exactly the rows inside it; when no row is inside,
\* the run halts with no termination processed and no record produced.
C5_GlobalTrim ==
  (BASELINE_METHOD = 0 /\ pc # "start")
  => /\ (Len(ExpectedBaselineRows) = 0
         => Halted /\ NothingProduced /\ ~baselineStats.computed)
     /\ (baselineStats.computed
         => /\ baselineWindow.start = Int2Num(TrimStart)
            /\ baselineWindow.end = Int2Num(TrimEnd)
            /\ MeanOf(baselineStats.latency,
                      RawIncluded(ExpectedBaselineRows, MetricPos(BaseCols, "latency")))
            /\ MeanOf(baselineStats.throughput,
                      RawIncluded(ExpectedBaselineRows, MetricPos(BaseCols, "throughput"))))

C5_Witness ==
  /\ BASELINE_METHOD = 0
  /\ pc = "exit"
  /\ Len(BaseRows) > 0
  /\ Len(ExpectedBaselineRows) = 0
  /\ Len(timeSeriesData) > 0
  /\ Len(podTerminations) > 0
  /\ impl = "scripts"

\* C6: a baseline window that findBaselineWindowByTime returned has
\* start <= end and a sample count of at least 1 that equals the number of
\* rows with start <= Time <= end; when first + 60 s lies after last - 60 s
\* no window is returned.
C6_BaselineWindowSound ==
  /\ ~baselineWindow.exit
     => /\ baselineWindow.start.n <= baselineWindow.end.n
        /\ baselineWindow.size >= 1
        /\ baselineWindow.size =
             Cardinality({ i \in 1..Len(BaseRows) :
                             /\ baselineWindow.start.n <= RawMs(BaseRows[i])
                             /\ RawMs(BaseRows[i]) <= baselineWindow.end.n })
  /\ (BASELINE_METHOD = 0 /\ pc # "start" /\ Len(BaseRows) > 0 /\ TrimStart > TrimEnd)
     => baselineWindow.exit /\ Halted

C6_Witness ==
  /\ ~baselineWindow.exit
  /\ baselineWindow.size = 2
  /\ Len(BaseRows) = 4

\* C7: with an empty series (the run series under any strategy, or the
\* clean-run series the global baseline is taken from) the run halts: no
\* termination is processed, no record is produced, no report is written.
C7_EmptySeriesHalts ==
  (/\ pc # "start"
   /\ \/ Len(timeSeriesData) = 0
      \/ (BASELINE_METHOD = 0 /\ Len(BaseRows) = 0))
  => Halted /\ NothingProduced

C7_Witness ==
  /\ pc = "crash"
  /\ Len(timeSeriesData) = 0
  /\ BASELINE_METHOD = 2
  /\ Len(podTerminations) = 3

\* a header without a "Latency" column or without a "Throughput" column
ColumnMissing(cols) ==
  \/ ~\E i \in 1..Len(cols) : cols[i] \in LatencyNames
  \/ ~\E i \in 1..Len(cols) : cols[i] \in ThroughputNames

\* C8: (column-lookup revision) when the run series, or the clean-run series
\* used as the global baseline, lacks a Latency or a Throughput column, the
\* run halts before any baseline statistic is computed or any termination is
\* processed.
C8_MissingColumnHalts ==
  (/\ impl = "lookup"
   /\ pc # "start"
   /\ \/ ColumnMissing(columns)
      \/ (BASELINE_METHOD = 0 /\ cleanRun.given /\ ColumnMissing(cleanRun.columns)))
  => Halted /\ ~baselineStats.computed /\ NothingProduced

\* C9: the values aggregated for a window and a metric are exactly the
\* numeric, strictly positive cells of that metric's column in the window's
\* rows, so an excluded latency cell leaves the row's throughput value in and
\* conversely (after and before windows of the termination just analysed,
\* and the baseline window).
C9_InclusionPolicy ==
  /\ (locals.valid /\ BASELINE_METHOD \in {0, 1})
     => /\ locals.metricsAfter.isNull = (Len(ExpectedAfter(LastEvent)) = 0)
        /\ ~locals.metricsAfter.isNull
           => /\ locals.metricsAfter.latency.values =
                   RawIncluded(ExpectedAfter(LastEvent), LatPos)
              /\ locals.metricsAfter.throughput.values =
                   RawIncluded(ExpectedAfter(LastEvent), ThrPos)
        /\ BASELINE_METHOD = 1
           => /\ locals.metricsBefore.isNull = (Len(ExpectedBefore(LastEvent)) = 0)
              /\ ~locals.metricsBefore.isNull
                 => /\ locals.metricsBefore.latency.values =
                         RawIncluded(ExpectedBefore(LastEvent), LatPos)
                    /\ locals.metricsBefore.throughput.values =
                         RawIncluded(ExpectedBefore(LastEvent), ThrPos)
  /\ baselineStats.computed
     => /\ baselineStats.latency.count =
             Len(RawIncluded(ExpectedBaselineRows, MetricPos(BaseCols, "latency")))
        /\ baselineStats.throughput.count =
             Len(RawIncluded(ExpectedBaselineRows, MetricPos(BaseCols, "throughput")))

C9_Witness ==
  /\ locals.valid /\ BASELINE_METHOD = 1
  /\ Len(locals.beforeSamples) = 2
  /\ Len(RawIncluded(<< locals.beforeSamples[1] >>, LatPos)) = 1
  /\ Len(RawIncluded(<< locals.beforeSamples[1] >>, ThrPos)) = 0
  /\ Len(RawIncluded(<< locals.beforeSamples[2] >>, LatPos)) = 0
  /\ Len(RawIncluded(<< locals.beforeSamples[2] >>, ThrPos)) = 1
  /\ locals.metricsBefore.latency.count = 1
  /\ locals.metricsBefore.throughput.count = 1

\* C10: a statistic over no included value has count 0, mean 0 and stdDev 0;
\* otherwise its mean is sum / n and its stdDev the population standard
\* deviation (divisor n), which is 0 for a single value.
C10_MeanAndStdDev ==
  /\ (locals.valid /\ BASELINE_METHOD \in {0, 1} /\ ~locals.metricsAfter.isNull)
     => /\ MeanOf(locals.metricsAfter.latency, locals.metricsAfter.latency.values)
        /\ MeanOf(locals.metricsAfter.throughput, locals.metricsAfter.throughput.values)
  /\ (locals.valid /\ BASELINE_METHOD = 1 /\ ~locals.metricsBefore.isNull)
     => \A m \in {locals.metricsBefore.latency, locals.metricsBefore.throughput} :
          /\ MeanOf(m, m.values)
          /\ PopulationStdDevOf(m, m.values)
          /\ (m.count = 1 => m.stdDev.n = 0)
  /\ baselineStats.computed
     => /\ PopulationStdDevOf(baselineStats.latency,
             RawIncluded(ExpectedBaselineRows, MetricPos(BaseCols, "latency")))
        /\ PopulationStdDevOf(baselineStats.throughput,
             RawIncluded(ExpectedBaselineRows, MetricPos(BaseCols, "throughput")))

C10_Witness ==
  /\ locals.valid /\ BASELINE_METHOD = 1
  /\ ~locals.metricsBefore.isNull /\ ~locals.metricsAfter.isNull
  /\ locals.metricsBefore.latency.count = 2
  /\ locals.metricsBefore.latency.stdDev.n # 0
  /\ locals.metricsBefore.throughput.count = 1
  /\ locals.metricsAfter.latency.count = 0
  /\ locals.metricsAfter.latency.mean = Zero

Applied(fn) == call.fn = fn /\ call.done

\* C11: calculateZScore is (value - mean) / stdDev for a non-zero stdDev (the
\* result has the sign of value - mean and its square times the variance is
\* (value - mean)^2) and is 0 for every value and mean when stdDev is 0, in
\* which case the label is 'Not Significant'.
C11_ZScore ==
  Applied("calculateZScore")
  => LET v == call.args[1]
         m == call.args[2]
         var == call.args[3]
         z == call.out.z
         d == v.n * m.d - m.n * v.d
     IN  IF var.n = 0
         THEN z.sgn = 0 /\ z.sq = Zero /\ call.out.label = "Not Significant"
         ELSE /\ z.sgn = (IF d > 0 THEN 1 ELSE IF d < 0 THEN -1 ELSE 0)
              /\ z.sq.k = "num"
              /\ z.sq.n * var.n * (v.d * m.d) * (v.d * m.d) = d * d * var.d * z.sq.d

C11_Witness ==
  /\ Applied("calculateZScore")
  /\ call.args = << Int2Num(50), Int2Num(50), Sqrt(Zero) >>
  /\ call.out.z = ZeroZ
  /\ call.out.label = "Not Significant"

\* C12: calculatePercentageChange is (value - mean) / mean * 100 for a
\* non-zero mean and 0 for every value when the mean is 0.
C12_PercentageChange ==
  Applied("calculatePercentageChange")
  => LET v == call.args[1]
         m == call.args[2]
     IN  IF m.n = 0 THEN call.out = Zero
         ELSE /\ call.out.k = "num"
              /\ call.out.n * m.n * v.d = (v.n * m.d - m.n * v.d) * 100 * call.out.d

C12_Witness ==
  /\ Applied("calculatePercentageChange")
  /\ call.args = << Int2Num(229), Zero >>
  /\ call.out = Zero

\* |r| > num/den
Above(r, num, den) == Abs(r.n) * den > num * r.d

\* the label of the deviation r on a scale with thresholds low < mid < high,
\* each over den
LabelOn(r, low, mid, high, den) ==
  IF Above(r, high, den) THEN "Highly Significant"
  ELSE IF Above(r, mid, den) THEN "Significant"
  ELSE IF Above(r, low, den) THEN "Marginal"
  ELSE "Not Significant"

\* C13: assessSignificanceByZScore gives 'Highly Significant' iff |z| > 2.58,
\* 'Significant' iff 1.96 < |z| <= 2.58, 'Marginal' iff 1.28 < |z| <= 1.96
\* and 'Not Significant' iff |z| <= 1.28.
C13_ZScoreLabels ==
  Applied("assessSignificanceByZScore")
  => \A i \in 1..2 :
       /\ call.out[i] = LabelOn(call.args[i], 128, 196, 258, 100)
       /\ (call.out[i] = "Highly Significant") = Above(call.args[i], 258, 100)
       /\ (call.out[i] = "Not Significant") = ~Above(call.args[i], 128, 100)

C13_Witness ==
  /\ Applied("assessSignificanceByZScore")
  /\ call.args = << Rat(258, 100), Rat(-196, 100) >>
  /\ call.out = << "Significant", "Marginal" >>

\* C14: assessSignificance gives 'Highly Significant' iff |p| > 10,
\* 'Significant' iff 5 < |p| <= 10, 'Marginal' iff 2 < |p| <= 5 and
\* 'Not Significant' iff |p| <= 2.
C14_PercentLabels ==
  Applied("assessSignificance")
  => \A i \in 1..2 :
       /\ call.out[i] = LabelOn(call.args[i], 2, 5, 10, 1)
       /\ (call.out[i] = "Highly Significant") = Above(call.args[i], 10, 1)
       /\ (call.out[i] = "Not Significant") = ~Above(call.args[i], 2, 1)

C14_Witness ==
  /\ Applied("assessSignificance")
  /\ call.args = << Int2Num(10), Int2Num(-2) >>
  /\ call.out = << "Significant", "Not Significant" >>

Tier(label) ==
  CASE label = "Not Significant" -> 0
    [] label = "Marginal" -> 1
    [] label = "Significant" -> 2
    [] label = "Highly Significant" -> 3

\* C15: on both scales, for two deviations a and b, |a| <= |b| implies that
\* the tier of label(a) is not above the tier of label(b), and a = -b implies
\* label(a) = label(b).
C15_MonotonicSymmetric ==
  (Applied("assessSignificance") \/ Applied("assessSignificanceByZScore"))
  => LET a == call.args[1]
         b == call.args[2]
     IN  /\ Abs(a.n) * b.d <= Abs(b.n) * a.d => Tier(call.out[1]) <= Tier(call.out[2])
         /\ a = Neg(b) => call.out[1] = call.out[2]

C15_Witness ==
  /\ Applied("assessSignificance")
  /\ call.args = << Rat(-1001, 100), Rat(1001, 100) >>
  /\ call.out = << "Highly Significant", "Highly Significant" >>

\* the decimal token t exceeds 10^12
TokenExceeds(t) ==
  \/ t.hi > 1000000
  \/ (t.hi = 1000000 /\ (t.lo > 0 \/ t.milli > 0))

\* C16: for a numeric token n, parseTimestamp gives n itself when n > 10^12
\* and n * 1000 otherwise (10^12 included); for a date token it gives the
\* date's epoch milliseconds.
C16_ParseTimestamp ==
  Applied("parseTimestamp")
  => LET t == call.args[1]
     IN  /\ (t.txt = "num" /\ TokenExceeds(t))
            => t.milli = 0 /\ call.out = Limbs(t.hi, t.lo)
         /\ (t.txt = "num" /\ ~TokenExceeds(t))
            => call.out = Limbs(t.hi * 1000 + ((t.lo * 1000) \div 1000000),
                                ((t.lo * 1000) % 1000000) + t.milli)
         /\ t.txt = "date" => call.out = Int2Num(t.ms)

\* the same for tokens without fraction digits
C16_IntegerTokens ==
  (Applied("parseTimestamp") /\ call.args[1].milli = 0) => C16_ParseTimestamp

C16_Thresholds ==
  /\ Applied("parseTimestamp")
  /\ call.args[1] = DecimalToken(1000000, 0, 0)
  /\ call.out = [k |-> "big", hi |-> 1000000000, lo |-> 0]

\* C17: a termination whose time token is neither a number nor a date aborts
\* the analysis when it is reached, and no record is produced for it.
C17_UnparseableTimeAborts ==
  \A i \in 1..Len(podTerminations) :
    (~EvOk(podTerminations[i]) /\ index >= i) => Halted /\ Len(results) < i

\* the detrended strategy has run detrendData on the series
DetrendDone == BASELINE_METHOD = 2 /\ pc # "start" /\ Len(timeSeriesData) > 0

IsIncluded(row, pos) ==
  pos >= 1 /\ pos <= Len(row) /\ row[pos].txt = "num" /\ row[pos].v.n > 0

\* the timestamps of the rows whose cell at pos is included
IncludedTimes(rows, pos) ==
  LET Ok(row) == IsIncluded(row, pos)
      kept == SelectSeq(rows, Ok)
  IN  [i \in 1..Len(kept) |-> Int2Num(RawMs(kept[i]))]

\* the mean of the included cells at pos
SeriesMean(pos) ==
  LET vals == RawIncluded(timeSeriesData, pos)
  IN  IF Len(vals) = 0 THEN Zero ELSE Rat(SumInts(vals), Len(vals))

\* a metric has at least two included samples (a line can be fitted)
Fittable(pos) == Len(RawIncluded(timeSeriesData, pos)) >= 2

\* C18: the fit of a metric with at least two included samples is the
\* least-squares line through the samples whose value for that metric is
\* included and through no other point.
C18_FitUsesIncludedOnly ==
  DetrendDone
  => /\ Fittable(LatPos)
        => detrendResult.latencyRegression =
             linearRegression(IncludedTimes(timeSeriesData, LatPos),
                              RawIncluded(timeSeriesData, LatPos))
     /\ Fittable(ThrPos)
        => detrendResult.throughputRegression =
             linearRegression(IncludedTimes(timeSeriesData, ThrPos),
                              RawIncluded(timeSeriesData, ThrPos))

\* detrended = raw - (slope*timestamp + intercept) + seriesMean for sample i
DetrendedAsStated(i, pos, reg, detrended) ==
  LET row == timeSeriesData[i]
  IN  IF IsNaN(reg.slope) THEN IsNaN(detrended)
      ELSE Add(detrended, Add(Mul(reg.slope, Int2Num(RawMs(row))), reg.intercept))
             = Add(row[pos].v, SeriesMean(pos))

\* the included samples of both metrics are detrended as stated, around the
\* mean of the included values, and the rows are carried along as they were
IncludedDetrended ==
  /\ Len(detrendResult.data) = Len(timeSeriesData)
  /\ detrendResult.latencyMean = SeriesMean(LatPos)
  /\ detrendResult.throughputMean = SeriesMean(ThrPos)
  /\ \A i \in 1..Len(timeSeriesData) :
       /\ detrendResult.data[i].row = timeSeriesData[i]
       /\ IsIncluded(timeSeriesData[i], LatPos)
          => DetrendedAsStated(i, LatPos, detrendResult.latencyRegression,
                               detrendResult.data[i].detrendedLatency)
       /\ IsIncluded(timeSeriesData[i], ThrPos)
          => DetrendedAsStated(i, ThrPos, detrendResult.throughputRegression,
                               detrendResult.data[i].detrendedThroughput)

\* C19 as stated: an included value is detrended to
\* raw - (slope*timestamp + intercept) + seriesMean and an excluded value
\* (non-positive or missing) comes out as the raw value itself.
C19_ExcludedUnchanged ==
  DetrendDone
  => /\ IncludedDetrended
     /\ \A i \in 1..Len(timeSeriesData) :
          /\ ~IsIncluded(timeSeriesData[i], LatPos)
             => detrendResult.data[i].detrendedLatency =
                  parseFloat(timeSeriesData[i][LatPos])
          /\ ~IsIncluded(timeSeriesData[i], ThrPos)
             => detrendResult.data[i].detrendedThroughput =
                  parseFloat(timeSeriesData[i][ThrPos])

\* C19 (amended): an included value is detrended to
\* raw - (slope*timestamp + intercept) + seriesMean, an excluded value comes
\* out as 0 whatever the raw cell holds, and the rows are not modified.
C19_ExcludedBecomeZero ==
  DetrendDone
  => /\ IncludedDetrended
     /\ \A i \in 1..Len(timeSeriesData) :
          /\ ~IsIncluded(timeSeriesData[i], LatPos)
             => detrendResult.data[i].detrendedLatency = Zero
          /\ ~IsIncluded(timeSeriesData[i], ThrPos)
             => detrendResult.data[i].detrendedThroughput = Zero

C19_Witness ==
  /\ DetrendDone
  /\ ~IsNaN(detrendResult.throughputRegression.slope)
  /\ \E i, j \in 1..Len(timeSeriesData) :
       /\ IsIncluded(timeSeriesData[i], ThrPos)
       /\ detrendResult.data[i].detrendedThroughput # timeSeriesData[i][ThrPos].v
       /\ timeSeriesData[j][ThrPos].txt = "num"
       /\ timeSeriesData[j][ThrPos].v.n < 0
       /\ detrendResult.data[j].detrendedThroughput = Zero

\* the included samples of a metric lie on one line a*timestamp + b
Linear(pos) ==
  LET Ok(row) == IsIncluded(row, pos)
      pts == SelectSeq(timeSeriesData, Ok)
      y(i) == pts[i][pos].v.n
      t(i) == RawMs(pts[i])
  IN  \A i, j, k \in 1..Len(pts) :
        (y(j) - y(i)) * (t(k) - t(i)) = (y(k) - y(i)) * (t(j) - t(i))

\* C20: when the included values of a metric (at least two) lie on one line,
\* every included sample's detrended value is the mean of the included values.
C20_LinearSeriesFlattens ==
  DetrendDone
  => /\ (Fittable(LatPos) /\ Linear(LatPos))
        => \A i \in 1..Len(timeSeriesData) :
             IsIncluded(timeSeriesData[i], LatPos)
             => detrendResult.data[i].detrendedLatency = SeriesMean(LatPos)
     /\ (Fittable(ThrPos) /\ Linear(ThrPos))
        => \A i \in 1..Len(timeSeriesData) :
             IsIncluded(timeSeriesData[i], ThrPos)
             => detrendResult.data[i].detrendedThroughput = SeriesMean(ThrPos)

\* some check-rate cell (fifth column and beyond) of the rows holds a number
\* strictly between 0 and 1
ExpectedHasFailures(rows) ==
  \E r \in 1..Len(rows) : \E p \in 5..Len(columns) :
    /\ p <= Len(rows[r])
    /\ rows[r][p].txt = "num"
    /\ 0 < rows[r][p].v.n /\ rows[r][p].v.n < rows[r][p].v.d

IsRate(cell) == cell.txt = "num" /\ 0 <= cell.v.n /\ cell.v.n <= cell.v.d

\* the populated check-rate values of the designated columns in the rows,
\* from header position p on
RECURSIVE ExpectedRates(_, _)
ExpectedRates(rows, p) ==
  IF p > Len(columns) THEN << >>
  ELSE LET Has(row) == p <= Len(row) /\ IsRate(row[p])
           kept == SelectSeq(rows, Has)
           here == IF \E i \in 1..Len(checkColumnNames) : checkColumnNames[i] = columns[p]
                   THEN [i \in 1..Len(kept) |-> kept[i][p].v]
                   ELSE << >>
       IN  here \o ExpectedRates(rows, p + 1)

\* product of the denominators, and the sum of the values over that product
RECURSIVE DenProd(_)
DenProd(vals) == IF vals = << >> THEN 1 ELSE Head(vals).d * DenProd(Tail(vals))

RECURSIVE NumSum(_)
NumSum(vals) ==
  IF vals = << >> THEN 0
  ELSE Head(vals).n * DenProd(Tail(vals)) + Head(vals).d * NumSum(Tail(vals))

RecordAlone(termination) ==
  LET terminationTime == parseTimestamp(termination.TerminationTime)
      metricsBefore == getMetricsBeforeTermination(timeSeriesData, columns,
                         terminationTime, columnIndices, BeforeWindowSeconds)
      metricsAfter == getMetricsAfterTermination(timeSeriesData, columns,
                        terminationTime, columnIndices, AfterWindowSeconds)
  IN  IF BASELINE_METHOD = 0
      THEN (IF impl = "scripts"
            THEN globalRecord(termination, metricsAfter, baselineStats)
            ELSE globalRecordZ(termination, metricsAfter, baselineStats))
      ELSE IF BASELINE_METHOD = 1
      THEN (IF impl = "scripts"
            THEN localRecord(termination, metricsBefore, metricsAfter)
            ELSE localRecordZ(termination, metricsBefore, metricsAfter,
                              baselineThroughputStdDev))
      ELSE detrendedRecord(termination,
             detrendedBefore(detrendResult.data, columns, terminationTime,
                             BeforeWindowSeconds),
             detrendedAfter(detrendResult.data, columns, terminationTime,
                            AfterWindowSeconds),
             columns)

\* C23: under every strategy the record of each termination is the one it
\* gets on its own, whatever was processed before it, so any reordering of
\* the log reorders the records the same way; what the callbacks read
\* (baseline, fit, column indices) is as it was when the loop started.
C23_EventsIndependent ==
  \A i \in 1..Len(results) : results[i] = RecordAlone(podTerminations[i])

\* two different terminations, both with full records, in either order
C23_Witness ==
  /\ pc = "written"
  /\ BASELINE_METHOD = 0
  /\ Len(results) = 3
  /\ podTerminations[1].Pod = "redis-0"
  /\ podTerminations[2].Pod = "kafka-0"
  /\ podTerminations[3].Pod = "redis-0"
  /\ results[1].LatencySignificance # "N/A"
  /\ results[2].LatencySignificance # "N/A"
  /\ results[1].AfterLatencyMean # results[2].AfterLatencyMean
  /\ results[3] = results[1]

\* a row lies in the before-window or in the after-window of a termination
InWindows(row, ev) ==
  /\ EvOk(ev)
  /\ \/ (EvMs(ev) - BeforeWindowSeconds * 1000 <= RawMs(row) /\ RawMs(row) < EvMs(ev))
     \/ (EvMs(ev) < RawMs(row) /\ RawMs(row) <= EvMs(ev) + AfterWindowSeconds * 1000)

\* the series with every cell but Time and VUs emptied in the rows outside
\* both windows of a termination
OutsideBlanked(ev) ==
  [i \in 1..Len(timeSeriesData) |->
     IF InWindows(timeSeriesData[i], ev) THEN timeSeriesData[i]
     ELSE [p \in 1..Len(timeSeriesData[i]) |->
             IF p <= 2 THEN timeSeriesData[i][p] ELSE BlankCell]]

\* the local-strategy record of a termination over a given series, with a
\* given series-wide throughput deviation
LocalRecordOver(series, ev, deviation) ==
  LET terminationTime == parseTimestamp(ev.TerminationTime)
      metricsBefore == getMetricsBeforeTermination(series, columns, terminationTime,
                                                   columnIndices, BeforeWindowSeconds)
      metricsAfter == getMetricsAfterTermination(series, columns, terminationTime,
                                                 columnIndices, AfterWindowSeconds)
  IN  IF impl = "scripts"
      THEN localRecord(ev, metricsBefore, metricsAfter)
      ELSE localRecordZ(ev, metricsBefore, metricsAfter, deviation)

\* the fields of a record that do not stem from the throughput z-score
SansThroughputZ(r) ==
  IF impl = "scripts" THEN r
  ELSE [r EXCEPT !.ThroughputZScore = NA, !.ThroughputSignificance = "N/A",
                 !.BaselineThroughputStdDev = NA]

\* C24 as stated: under the local strategy the whole record of a termination
\* is a function of the samples in its own two windows: emptying the rows
\* outside both windows leaves the record as it is.
C24_LocalUsesOwnWindowsOnly ==
  BASELINE_METHOD = 1
  => \A i \in 1..Len(results) :
       results[i] =
         LocalRecordOver(OutsideBlanked(podTerminations[i]), podTerminations[i],
                         stdDev(RawIncluded(OutsideBlanked(podTerminations[i]), ThrPos)))

\* C24 (amended): emptying the rows outside both windows leaves every field
\* of the record as it is, except, in the column-lookup revision, the
\* throughput z-score, the throughput label and the reported throughput
\* deviation, which are those obtained with the standard deviation of all
\* included throughput values of the series.
C24_LocalButThroughputZ ==
  BASELINE_METHOD = 1
  => \A i \in 1..Len(results) :
       /\ SansThroughputZ(results[i]) =
            SansThroughputZ(
              LocalRecordOver(OutsideBlanked(podTerminations[i]), podTerminations[i],
                              Sqrt(Zero)))
       /\ results[i] =
            LocalRecordOver(OutsideBlanked(podTerminations[i]), podTerminations[i],
                            stdDev(RawIncluded(timeSeriesData, ThrPos)))

\* a full record of the column-lookup revision whose throughput z-score
\* rests on a sample outside both windows
C24_Witness ==
  /\ BASELINE_METHOD = 1 /\ impl = "lookup" /\ locals.valid
  /\ results[index].ThroughputSignificance # "N/A"
  /\ \E r \in 1..Len(timeSeriesData) :
       /\ ~InWindows(timeSeriesData[r], LastEvent)
       /\ IsIncluded(timeSeriesData[r], ThrPos)
  /\ stdDev(RawIncluded(timeSeriesData, ThrPos))
       # stdDev(RawIncluded(OutsideBlanked(LastEvent), ThrPos))

\* the local strategy was applied to the latency series
\* (0,100) (1000,100) (2000,100) (3000,500) (4000,500) for a termination at
\* 2500 ms with a before-window of 3 s and an after-window of 2 s
StepScenario ==
  /\ Applied("analyzeWithLocalBaseline")
  /\ Len(call.args[1].rows) = 5
  /\ \A i \in 1..5 :
       /\ RawMs(call.args[1].rows[i]) = (i - 1) * 1000
       /\ call.args[1].rows[i][3] = NumCell(IF i <= 3 THEN 100 ELSE 500, 1)
  /\ EvOk(call.args[2]) /\ EvMs(call.args[2]) = 2500
  /\ call.args[2].TerminationTime.txt = "date"
  /\ call.args[3] = 3 /\ call.args[4] = 2

\* C25 as stated: the scenario's record reports before mean 100, after mean
\* 500, a change of +300 % and 'Highly Significant'.
C25_Scenario300 ==
  StepScenario
  => /\ call.out.BeforeLatencyMean = toFixed(Int2Num(100), 4)
     /\ call.out.AfterLatencyMean = toFixed(Int2Num(500), 4)
     /\ call.out.LatencyChange.scaled = 30000
     /\ call.out.LatencySignificance = "Highly Significant"

\* C25 (amended): the scenario's record reports before mean 100 (three
\* samples), after mean 500 (two samples), a change of +400 %, which is
\* (500 - 100) / 100 * 100, and 'Highly Significant'.
C25_Scenario400 ==
  StepScenario
  => /\ call.out.SamplesBefore = 3 /\ call.out.SamplesAfter = 2
     /\ call.out.BeforeLatencyMean.scaled = 100 * 10000
     /\ call.out.AfterLatencyMean.scaled = 500 * 10000
     /\ call.out.LatencyChange.txt = "fixed"
     /\ call.out.LatencyChange.scaled = 400 * 100
     /\ call.out.LatencySignificance = "Highly Significant"

C25_Witness ==
  /\ StepScenario
  /\ call.out.LatencyChange = toFixed(Int2Num(400), 2)

\* count of the baseline (global), before (local) or detrended before
\* statistic, and of the after statistic, the last callback used for a metric
BaseCount(metric) ==
  IF BASELINE_METHOD = 0 THEN baselineStats[metric].count
  ELSE IF BASELINE_METHOD = 1
  THEN (IF locals.metricsBefore.isNull THEN 0 ELSE locals.metricsBefore[metric].count)
  ELSE Len(detrendedValues(locals.beforeSamples, metric))

AfterCount(metric) ==
  IF BASELINE_METHOD = 2 THEN Len(detrendedValues(locals.afterSamples, metric))
  ELSE IF locals.metricsAfter.isNull THEN 0 ELSE locals.metricsAfter[metric].count

\* C26: a record carries a significance label other than 'N/A' for a metric
\* only if the baseline (or before) statistic and the after statistic of that
\* metric both have a count of at least 1.
C26_CountCheckedBeforeUse ==
  locals.valid
  => /\ results[index].LatencySignificance # "N/A"
        => BaseCount("latency") >= 1 /\ AfterCount("latency") >= 1
     /\ results[index].ThroughputSignificance # "N/A"
        => BaseCount("throughput") >= 1 /\ AfterCount("throughput") >= 1

\* what the callers do check: the latency count of the after statistic
\* (global, local) and of the before statistic (local)
C26_LatencyCountChecked ==
  (locals.valid /\ BASELINE_METHOD \in {0, 1}
   /\ results[index].LatencySignificance # "N/A")
  => /\ AfterCount("latency") >= 1
     /\ BASELINE_METHOD = 1 => BaseCount("latency") >= 1

\* number of requests that did not end with a 2xx response
Failures(outcomes) == Cardinality({ k \in 1..Len(outcomes) : outcomes[k] # "ok" })

\* C27: the poster has sent one request for each of the first rows, in file
\* order and never two at once; a request is sent only when the one before
\* has settled and at least 100 ms have passed since; every settled request
\* is counted once, as a success or (HTTP error, network error) as a failure;
\* at the head of the loop successCount + failureCount = i, and when the
\* summary is printed every row has been sent and counted.
C27_OneRequestPerRow ==
  LET rows == poster.podTerminations
      sent == Len(poster.requests)
      settled == Len(poster.outcomes)
  IN  /\ sent <= Len(rows)
      /\ \A k \in 1..sent : poster.requests[k].text = rows[k].Pod
      /\ sent = poster.i + (IF poster.pc \in {"fetch", "delay"} THEN 1 ELSE 0)
      /\ settled = poster.i + (IF poster.pc = "delay" THEN 1 ELSE 0)
      /\ Len(poster.sentAt) = sent /\ Len(poster.settledAt) = settled
      /\ \A k \in 2..sent : poster.sentAt[k] >= poster.settledAt[k - 1] + DelayMs
      /\ poster.successCount + poster.failureCount = settled
      /\ poster.failureCount = Failures(poster.outcomes)
      /\ poster.pc = "done" => (poster.i = Len(rows) /\ sent = Len(rows)
                                /\ poster.successCount + poster.failureCount = Len(rows))

\* two rows, the first request failed on the network, the second succeeded
C27_Witness ==
  /\ poster.pc = "done"
  /\ Len(poster.podTerminations) = 2
  /\ poster.outcomes = << "networkError", "ok" >>
  /\ poster.successCount = 1 /\ poster.failureCount = 1
  /\ poster.sentAt[2] = poster.settledAt[1] + DelayMs

\* the deletions of one group, in the order they were made
GroupLog(group) ==
  LET Of(d) == d.group = group
  IN  SelectSeq(killer.deleted, Of)

\* the schedule so far: the first k Kafka pods at 300 * i and the first r
\* Redis pods at 90 + 180 * j, each once and in list order, whatever the
\* outcome of a deletion; deletion times never go back, and a Kafka pod due
\* at the same time as a Redis pod goes first; once an iteration is over
\* nothing that was due is left pending
ScheduleKept ==
  LET kafka == GroupLog("kafka")
      redis == GroupLog("redis")
      log == killer.deleted
  IN  /\ Len(kafka) = killer.k /\ killer.k <= Len(KAFKA_PODS)
      /\ Len(redis) = killer.r /\ killer.r <= Len(REDIS_PODS)
      /\ Len(log) = killer.k + killer.r
      /\ \A i \in 1..Len(kafka) :
           kafka[i].pod = KAFKA_PODS[i] /\ kafka[i].at = 300 * (i - 1)
      /\ \A j \in 1..Len(redis) :
           redis[j].pod = REDIS_PODS[j] /\ redis[j].at = 90 + 180 * (j - 1)
      /\ \A a, b \in 1..Len(log) :
           a < b => /\ log[a].at <= log[b].at
                    /\ log[a].at = log[b].at
                       => log[a].group = "kafka" /\ log[b].group = "redis"
      /\ \A a \in 1..Len(log) : log[a].at <= killer.t_now
      /\ (killer.pc = "loop" /\ killer.iterations > 0)
         => /\ killer.k < Len(KAFKA_PODS) => killer.t_kafka > killer.t_now
            /\ killer.r < Len(REDIS_PODS) => killer.t_redis > killer.t_now
      /\ killer.pc = "done"
         => killer.k = Len(KAFKA_PODS) /\ killer.r = Len(REDIS_PODS)

\* C30: the pod-killer loop terminates; at every moment the deletions made
\* are the first pods of each list, each once, the i-th Kafka pod at 300 * i
\* and the j-th Redis pod at 90 + 180 * j, also after failed and dry-run
\* deletions; t_now never decreases; and when the loop has ended every pod
\* of both lists has been deleted once.
C30_KillerSchedule ==
  /\ []ScheduleKept
  /\ [][killer'.t_now >= killer.t_now]_vars
  /\ <>(killer.pc = "done")

\* all nine pods handled in a real run, the first Kafka deletion having failed
C30_Witness ==
  /\ killer.pc = "done"
  /\ ~killer.DRY_RUN
  /\ Len(killer.deleted) = 9
  /\ killer.deleted[1] = Deletion("kafka", KAFKA_PODS[1], 0, "failed")
  /\ killer.deleted[2] = Deletion("redis", REDIS_PODS[1], 90, "deleted")
  /\ killer.deleted[9].at = 990
  /\ killer.t_now = 990

\* the number of values the detrended strategy aggregates, and the number of
\* raw cells of the window that are numeric and positive
DetrendedCount(samples, metric) == Len(detrendedValues(samples, metric))

RawCount(rows, metric) ==
  Len(RawIncluded(rows, IF metric = "latency" THEN LatPos ELSE ThrPos))

\* C29: in the detrended strategy, for every termination the before and
\* after counts of latency and of throughput equal the number of samples of
\* the window whose raw value is included (numeric and > 0); the record's
\* 'Samples Before' and 'Samples After' are those latency counts.
C29_DetrendingKeepsCounts ==
  (BASELINE_METHOD = 2 /\ locals.valid /\ EvOk(LastEvent))
  => LET before == ExpectedBefore(LastEvent)
         after == ExpectedAfter(LastEvent)
     IN  /\ \A metric \in {"latency", "throughput"} :
              /\ DetrendedCount(locals.beforeSamples, metric) = RawCount(before, metric)
              /\ DetrendedCount(locals.afterSamples, metric) = RawCount(after, metric)
         /\ (Len(before) > 0 /\ Len(after) > 0)
            => /\ results[index].SamplesBefore = RawCount(before, "latency")
               /\ results[index].SamplesAfter = RawCount(after, "latency")

\* the half of C29 that the code keeps: a sample whose raw value is excluded
\* is never counted, so a count never exceeds the raw count
C29_ExcludedStayExcluded ==
  (BASELINE_METHOD = 2 /\ locals.valid /\ EvOk(LastEvent))
  => \A metric \in {"latency", "throughput"} :
       /\ DetrendedCount(locals.beforeSamples, metric)
            <= RawCount(ExpectedBefore(LastEvent), metric)
       /\ DetrendedCount(locals.afterSamples, metric)
            <= RawCount(ExpectedAfter(LastEvent), metric)

\* the merge of a k6 series and a termination log has been written
Merged == call.fn = "mergeData" /\ call.done

MergedRows == call.args[1].rows
MergedEvents == call.args[2].events

\* the line a k6 row is expected to give, and the lines a termination may give
MetricLine(row) == row \o << BlankCell >>

IsKilledLine(line, ev) ==
  /\ Len(line) = Len(HeaderFull) + 1
  /\ line[1].txt = "num"
  /\ EvOk(ev) => line[1].v = Int2Num(EvMs(ev))
  /\ \A p \in 2..Len(HeaderFull) : line[p] = BlankCell
  /\ line[Len(line)].txt = ev.Pod \o " killed"

IsMetricLine(line) == Len(line) > 0 /\ line[Len(line)] = BlankCell

Occurrences(lines, Test(_)) == Cardinality({ i \in 1..Len(lines) : Test(lines[i]) })

\* m + n lines; every k6 row and every termination has its lines, as often as
\* it occurs in its file; the first cells never decrease, and of two lines
\* with the same time the metric line comes first
MergedAsStated(out) ==
  /\ Len(out) = Len(MergedRows) + Len(MergedEvents)
  /\ \A r \in 1..Len(MergedRows) :
       LET Same(row) == row = MergedRows[r]
           Line(line) == line = MetricLine(MergedRows[r])
       IN  Occurrences(out, Line) = Occurrences(MergedRows, Same)
  /\ \A e \in 1..Len(MergedEvents) :
       LET Same(ev) == ev = MergedEvents[e]
           Line(line) == IsKilledLine(line, MergedEvents[e])
       IN  Occurrences(out, Line) = Occurrences(MergedEvents, Same)
  /\ \A a, b \in 1..Len(out) :
       a < b => /\ out[a][1].txt = "num" /\ out[b][1].txt = "num"
                /\ out[a][1].v.n <= out[b][1].v.n
                /\ out[a][1].v.n = out[b][1].v.n
                   => ~(~IsMetricLine(out[a]) /\ IsMetricLine(out[b]))

\* C28: mergeData writes one line per metric sample and one per termination
\* (m + n lines), in non-decreasing order of timestamp; a termination line
\* holds its timestamp and '<pod> killed' and nothing else, a metric line
\* holds its original values and an empty Pod Termination cell, and a metric
\* line precedes a termination line of the same timestamp.
C28_MergedChronologically == Merged => MergedAsStated(call.out)

\* the same, for termination times that can be read and are not the epoch
C28_MergedWhenTimesRead ==
  (/\ Merged
   /\ \A e \in 1..Len(MergedEvents) :
        EvOk(MergedEvents[e]) /\ EvMs(MergedEvents[e]) # 0)
  => MergedAsStated(call.out)

\* a termination at the time of a k6 row, merged behind that row
C28_TieWitness ==
  /\ Merged
  /\ Len(call.out) = 4
  /\ call.out[2] = MetricLine(MakeRow(90000, KindA))
  /\ call.out[3][1].v = Int2Num(90000)
  /\ call.out[3][Len(HeaderFull) + 1] = KilledCell("kafka-0")
  /\ MergedAsStated(call.out)

====
